---- MODULE Spec2Model ----
(***************************************************************************)
(* State-machine model of the email triage core:                          *)
(*   - AIEmailAnalyzer   (src/ai_email_analyzer.py)                        *)
(*   - SmartUnsubscriber (src/smart_unsubscriber.py)                       *)
(* Strings that the code inspects character by character (subject and      *)
(* sender, matched against keyword lists after lower()) are tuples of      *)
(* one-character strings.  A Python value that may be missing, None or of  *)
(* another type is a tagged record [tag, val, num].                        *)
(***************************************************************************)
EXTENDS Integers, Sequences, FiniteSets, TLC

VARIABLES
    model,      \* self.model: "available" or "none" (None)
    top,        \* the public call in progress, "idle" when there is none
    pc,         \* position inside the call in progress
    caller,     \* who invoked _call_gemini_with_retry: "analyze_email" or "direct"
    msg,        \* email_data of the analyze_email invocation in progress
    out,        \* outcome of the last analyze_email: [exc, dec]
    attempt,    \* loop variable of _call_gemini_with_retry
    genCalls,   \* generate_content calls made since the current public call began
    callLog,    \* outcome of each generate_content call of the current retry loop
    resp,       \* value returned by _call_gemini_with_retry
    delays,     \* arguments of the time.sleep calls made by the current public call
    data,       \* argument of _validate_analysis_data (mutated in place)
    valid,      \* return value of _validate_analysis_data
    emails,     \* argument of analyze_batch
    idx,        \* loop position of analyze_batch / unsubscribe_from_email
    results,    \* the results list of analyze_batch
    links,      \* unsubscribe_links of unsubscribe_from_email
    page,       \* the page fetched for the current link
    bidx,       \* position in the buttons list of the current page
    uresults,   \* the results list of unsubscribe_from_email
    log,        \* HTTP requests, appended results and sleeps of unsubscribe_from_email, in order
    uemail,     \* email_data of unsubscribe_from_email
    analyzed,   \* analyzed_emails of get_*_candidates / generate_summary_report
    minConf,    \* min_confidence of get_deletion_candidates, in hundredths
    selected,   \* the candidates list returned by get_*_candidates
    report,     \* outcome of generate_summary_report
    response_text, \* argument of _clean_json_response
    cleaned,    \* value returned by _clean_json_response
    session,    \* st.session_state.analyzed_emails, by the ids of its emails
    bulk,       \* the emails argument of bulk_archive_emails, by their ids
    archived_count, \* the counter of bulk_archive_emails
    archivedOk  \* the ids for which archive_email returned True in the current call

vars == << model, top, pc, caller, msg, out, attempt, genCalls, callLog, resp, delays,
           data, valid, emails, idx, results, links, page, bidx, uresults, log,
           uemail, analyzed, minConf, selected, report,
           response_text, cleaned, session, bulk, archived_count, archivedOk >>

-----------------------------------------------------------------------------
(* Bounds of the model *)

\* longest batch handed to analyze_batch
MaxBatch == 2

-----------------------------------------------------------------------------
(* Python values *)

\* tag: the Python type ("absent": the key is missing); val: the characters of a
\* str; num: the value of a number
Str(s)  == [tag |-> "str", val |-> s, num |-> 0]
Num(n)  == [tag |-> "num", val |-> << >>, num |-> n]
PyNone  == [tag |-> "none", val |-> << >>, num |-> 0]
PyInt   == [tag |-> "int", val |-> << >>, num |-> 42]
PyTrue  == [tag |-> "bool", val |-> << >>, num |-> 1]
Absent  == [tag |-> "absent", val |-> << >>, num |-> 0]

UpperChars == <<"A","B","C","D","E","F","G","H","I","J","K","L","M",
                "N","O","P","Q","R","S","T","U","V","W","X","Y","Z">>
LowerChars == <<"a","b","c","d","e","f","g","h","i","j","k","l","m",
                "n","o","p","q","r","s","t","u","v","w","x","y","z">>

\* str.lower() on one character
LowerChar(c) ==
    IF \E i \in 1..Len(UpperChars) : UpperChars[i] = c
    THEN LowerChars[CHOOSE i \in 1..Len(UpperChars) : UpperChars[i] = c]
    ELSE c

\* faulty variant of Lower: the characters are left as they are
LowerAsIs(s) == s

\* str.lower()
Lower(s) == [i \in 1..Len(s) |-> LowerChar(s[i])]

\* Python's `k in s` on strings: k occurs in s as a contiguous substring
Contains(s, k) ==
    \E i \in 0..(Len(s) - Len(k)) : \A j \in 1..Len(k) : s[i + j] = k[j]

\* str.strip(): leading and trailing blanks removed
RECURSIVE LStrip(_)
LStrip(s) == IF s # << >> /\ Head(s) = " " THEN LStrip(Tail(s)) ELSE s
RECURSIVE RStrip(_)
RStrip(s) == IF s # << >> /\ s[Len(s)] = " " THEN RStrip(SubSeq(s, 1, Len(s) - 1)) ELSE s
Strip(s) == RStrip(LStrip(s))

\* any(keyword in s for keyword in keywords)
AnyIn(keywords, s) == \E n \in 1..Len(keywords) : Contains(s, keywords[n])

\* dict.get(key, ""): the default replaces a missing key only
GetOrEmpty(v) == IF v.tag = "absent" THEN Str(<< >>) ELSE v

-----------------------------------------------------------------------------
(* Enumerations and EmailAnalysis *)

EmailCategory == {"important", "spam", "promotions", "newsletters", "social",
                  "old_unimportant", "receipts", "notifications", "personal", "work"}

EmailAction == {"keep", "delete", "unsubscribe", "archive", "mark_important"}

\* confidences are held in hundredths: 0.6 is 60
ConfFallback == 60
ConfDefault == 50
PriorityDefault == 5

EmailAnalysis(cat, act, conf, prio, unsub, auto, rep) ==
    [category |-> cat, action |-> act, confidence |-> conf, priority_score |-> prio,
     has_unsubscribe |-> unsub, is_automated |-> auto, sender_reputation |-> rep]

\* placeholder where a call produced no EmailAnalysis
NoAnalysis == EmailAnalysis("-", "-", 0, 0, FALSE, FALSE, "-")

Returned(d) == [exc |-> "none", dec |-> d]
Raised(e)   == [exc |-> e, dec |-> NoAnalysis]

-----------------------------------------------------------------------------
(* _get_default_analysis: the rule-based fallback *)

spam_keywords ==
    << <<"v","i","a","g","r","a">>,
       <<"l","o","t","t","e","r","y">>,
       <<"w","i","n","n","e","r">>,
       <<"c","l","i","c","k"," ","h","e","r","e">>,
       <<"u","r","g","e","n","t">>,
       <<"c","o","n","g","r","a","t","u","l","a","t","i","o","n","s">>,
       <<"f","r","e","e"," ","m","o","n","e","y">>,
       <<"n","i","g","e","r","i","a","n"," ","p","r","i","n","c","e">> >>
promo_keywords ==
    << <<"s","a","l","e">>,
       <<"o","f","f","e","r">>,
       <<"d","e","a","l">>,
       <<"d","i","s","c","o","u","n","t">>,
       <<"%">>,
       <<"f","r","e","e">>,
       <<"l","i","m","i","t","e","d"," ","t","i","m","e">> >>
newsletter_keywords ==
    << <<"n","e","w","s","l","e","t","t","e","r">>,
       <<"u","p","d","a","t","e">>,
       <<"w","e","e","k","l","y">>,
       <<"m","o","n","t","h","l","y">>,
       <<"d","i","g","e","s","t">> >>
receipt_keywords ==
    << <<"r","e","c","e","i","p","t">>,
       <<"c","o","n","f","i","r","m","a","t","i","o","n">>,
       <<"o","r","d","e","r">>,
       <<"i","n","v","o","i","c","e">>,
       <<"p","a","y","m","e","n","t">> >>
social_tokens ==
    << <<"f","a","c","e","b","o","o","k">>,
       <<"l","i","n","k","e","d","i","n">>,
       <<"t","w","i","t","t","e","r">>,
       <<"i","n","s","t","a","g","r","a","m">> >>

\* faulty variant of RuleBased: the promotion keywords are looked for before the spam
\* keywords
RuleBasedPromoFirst(subject, sender) ==
    IF AnyIn(promo_keywords, subject)
    THEN EmailAnalysis("promotions", "unsubscribe", ConfFallback, 3, FALSE, TRUE, "unknown")
    ELSE IF AnyIn(spam_keywords, subject)
    THEN EmailAnalysis("spam", "delete", ConfFallback, 1, FALSE, TRUE, "unknown")
    ELSE IF AnyIn(newsletter_keywords, subject)
    THEN EmailAnalysis("newsletters", "archive", ConfFallback, 4, FALSE, TRUE, "unknown")
    ELSE IF AnyIn(receipt_keywords, subject)
    THEN EmailAnalysis("receipts", "archive", ConfFallback, 6, FALSE, TRUE, "unknown")
    ELSE IF AnyIn(social_tokens, sender)
    THEN EmailAnalysis("social", "archive", ConfFallback, 4, FALSE, TRUE, "unknown")
    ELSE EmailAnalysis("notifications", "keep", ConfFallback, 5, FALSE, TRUE, "unknown")

\* the if/elif chain over the lower-cased subject and sender
RuleBased(subject, sender) ==
    IF AnyIn(spam_keywords, subject)
    THEN EmailAnalysis("spam", "delete", ConfFallback, 1, FALSE, TRUE, "unknown")
    ELSE IF AnyIn(promo_keywords, subject)
    THEN EmailAnalysis("promotions", "unsubscribe", ConfFallback, 3, FALSE, TRUE, "unknown")
    ELSE IF AnyIn(newsletter_keywords, subject)
    THEN EmailAnalysis("newsletters", "archive", ConfFallback, 4, FALSE, TRUE, "unknown")
    ELSE IF AnyIn(receipt_keywords, subject)
    THEN EmailAnalysis("receipts", "archive", ConfFallback, 6, FALSE, TRUE, "unknown")
    ELSE IF AnyIn(social_tokens, sender)
    THEN EmailAnalysis("social", "archive", ConfFallback, 4, FALSE, TRUE, "unknown")
    ELSE EmailAnalysis("notifications", "keep", ConfFallback, 5, FALSE, TRUE, "unknown")

\* email_data.get("subject", "").lower() and email_data.get("from", "").lower()
\* raise AttributeError when the stored value is None or not a string
DefaultAnalysis(m) ==
    IF GetOrEmpty(m.subject).tag # "str" \/ GetOrEmpty(m.sender).tag # "str"
    THEN Raised("AttributeError")
    ELSE Returned(RuleBased(Lower(GetOrEmpty(m.subject).val), Lower(GetOrEmpty(m.sender).val)))

-----------------------------------------------------------------------------
(* Message records handed to the analyzer *)

SubjSpamPromo == <<"W","I","N","N","E","R"," ","s","a","l","e">>
SubjSpamPromoLower == <<"w","i","n","n","e","r"," ","s","a","l","e">>
SubjFreeMoney == <<"F","r","e","e"," ","M","o","n","e","y">>
SubjPromo == <<"5","0","%"," ","O","f","f">>
SubjNews == <<"W","e","e","k","l","y"," ","U","p","d","a","t","e">>
SubjReceipt == <<"Y","o","u","r"," ","O","r","d","e","r">>
SubjPlain == <<"H","e","l","l","o">>
FromSocial == <<"a","@","F","a","c","e","b","o","o","k",".","c","o","m">>
FromStore == <<"m","@","s","t","o","r","e",".","c","o","m">>

\* subject, sender ("from") and body (body_text / body_html / snippet) of email_data
EmailData(subject, sender, body) == [subject |-> subject, sender |-> sender, body |-> body]

Messages ==
    { EmailData(Str(SubjSpamPromo), Str(FromStore), Str(SubjPlain)),
      EmailData(Str(SubjSpamPromoLower), Str(FromStore), Absent),
      EmailData(Str(SubjFreeMoney), Str(FromStore), Str(SubjPlain)),
      EmailData(Str(SubjPromo), Str(FromStore), Str(SubjPlain)),
      EmailData(Str(SubjNews), Str(FromStore), PyNone),
      EmailData(Str(SubjReceipt), Str(FromSocial), Str(SubjPlain)),
      EmailData(Str(SubjPlain), Str(FromSocial), Str(SubjPlain)),
      EmailData(Str(SubjPlain), Str(FromStore), PyInt),
      EmailData(Absent, Absent, Absent),
      EmailData(PyNone, Str(FromStore), Str(SubjPlain)),
      EmailData(PyInt, Str(FromStore), Str(SubjPlain)),
      EmailData(Str(SubjPlain), PyNone, Str(SubjPlain)) }

NoMessage == EmailData(Absent, Absent, Absent)

\* the batches analyze_batch is given
RECURSIVE SeqsUpTo(_, _)
SeqsUpTo(S, n) ==
    IF n = 0 THEN { << >> }
    ELSE SeqsUpTo(S, n - 1) \cup { Append(q, x) : q \in { r \in SeqsUpTo(S, n - 1) : Len(r) = n - 1 }, x \in S }

Batches == SeqsUpTo(Messages, MaxBatch)

-----------------------------------------------------------------------------
(* The generation service *)

TxtSpam == <<"s","p","a","m">>
TxtSpamVariant == <<" ","S","p","a","m"," ">>
TxtDelete == <<"d","e","l","e","t","e">>
TxtDeleteUpper == <<"D","E","L","E","T","E">>
TxtPromotions == <<"p","r","o","m","o","t","i","o","n","s">>
TxtUnsubscribe == <<"u","n","s","u","b","s","c","r","i","b","e">>
TxtBogus == <<"b","o","g","u","s">>
TxtHigh == <<"h","i","g","h">>

\* What generate_content returned, by what json.loads makes of the sanitized text:
\*   "notext"    response.text raises (no candidate text)
\*   "empty"     empty text, "garbage" text that is not JSON: JSONDecodeError
\*   "nonobject" JSON that is not an object
\*   "object"    a JSON object with the given members
Response(kind, cat, act, conf, prio, unsub) ==
    [kind |-> kind, category |-> cat, action |-> act, confidence |-> conf,
     priority_score |-> prio, has_unsubscribe |-> unsub]

Obj(cat, act, conf, prio, unsub) == Response("object", cat, act, conf, prio, unsub)

\* _call_gemini_with_retry returned None
NoResponse == Response("none", Absent, Absent, Absent, Absent, Absent)

Responses ==
    { Response("notext", Absent, Absent, Absent, Absent, Absent),
      Response("empty", Absent, Absent, Absent, Absent, Absent),
      Response("garbage", Absent, Absent, Absent, Absent, Absent),
      Response("nonobject", Absent, Absent, Absent, Absent, Absent),
      Obj(Str(TxtSpam), Str(TxtDelete), Num(90), Num(2), PyTrue),
      Obj(Str(TxtSpamVariant), Str(TxtDeleteUpper), Absent, Absent, Absent),
      Obj(Str(TxtPromotions), Str(TxtUnsubscribe), Num(500), Num(11), PyTrue),
      Obj(Str(TxtBogus), Str(TxtDelete), Num(90), Num(2), Absent),
      Obj(Str(TxtSpam), Str(TxtBogus), Num(90), Num(2), Absent),
      Obj(Absent, Str(TxtDelete), Num(90), Num(2), Absent),
      Obj(Str(TxtSpam), Absent, Num(90), Num(2), Absent),
      Obj(PyInt, Str(TxtDelete), Num(90), Num(2), Absent),
      Obj(Str(TxtSpam), Str(TxtDelete), Str(TxtHigh), Num(2), Absent),
      Obj(Str(TxtSpam), Str(TxtDelete), Num(90), Str(TxtHigh), Absent) }

\* the exceptions generate_content raises
CallErrors == {"ServiceError", "Timeout"}

-----------------------------------------------------------------------------
(* _validate_analysis_data *)

EnumChars ==
       ("important" :> <<"i","m","p","o","r","t","a","n","t">>)
    @@ ("spam" :> <<"s","p","a","m">>)
    @@ ("promotions" :> <<"p","r","o","m","o","t","i","o","n","s">>)
    @@ ("newsletters" :> <<"n","e","w","s","l","e","t","t","e","r","s">>)
    @@ ("social" :> <<"s","o","c","i","a","l">>)
    @@ ("old_unimportant" :> <<"o","l","d","_","u","n","i","m","p","o","r","t","a","n","t">>)
    @@ ("receipts" :> <<"r","e","c","e","i","p","t","s">>)
    @@ ("notifications" :> <<"n","o","t","i","f","i","c","a","t","i","o","n","s">>)
    @@ ("personal" :> <<"p","e","r","s","o","n","a","l">>)
    @@ ("work" :> <<"w","o","r","k">>)
    @@ ("keep" :> <<"k","e","e","p">>)
    @@ ("delete" :> <<"d","e","l","e","t","e">>)
    @@ ("unsubscribe" :> <<"u","n","s","u","b","s","c","r","i","b","e">>)
    @@ ("archive" :> <<"a","r","c","h","i","v","e">>)
    @@ ("mark_important" :> <<"m","a","r","k","_","i","m","p","o","r","t","a","n","t">>)

\* faulty variant of IsMember: the value is never looked up in the enumeration
IsMemberUnchecked(enum, chars) == TRUE

\* EmailCategory(value) / EmailAction(value): the member with that value, ValueError if none
IsMember(enum, chars) == \E e \in enum : EnumChars[e] = chars
Member(enum, chars) == CHOOSE e \in enum : EnumChars[e] = chars

\* value.strip().lower()
Normalize(chars) == Lower(Strip(chars))

\* ret: "true", "false", or the exception that escapes; data: the dict afterwards
\* (category and action are overwritten in place by their normalised values)
ValidateAnalysisData(d) ==
    IF d.kind # "object" THEN [ret |-> "false", data |-> d]   \* a list holds no "category"
    ELSE IF d.category.tag = "absent" \/ d.action.tag = "absent"
    THEN [ret |-> "false", data |-> d]
    ELSE IF d.category.tag # "str" THEN [ret |-> "AttributeError", data |-> d]
    ELSE LET d1 == [d EXCEPT !.category = Str(Normalize(d.category.val))] IN
         IF ~IsMember(EmailCategory, d1.category.val) THEN [ret |-> "false", data |-> d1]
         ELSE IF d1.action.tag # "str" THEN [ret |-> "AttributeError", data |-> d1]
         ELSE LET d2 == [d1 EXCEPT !.action = Str(Normalize(d1.action.val))] IN
              IF ~IsMember(EmailAction, d2.action.val) THEN [ret |-> "false", data |-> d2]
              ELSE [ret |-> "true", data |-> d2]

-----------------------------------------------------------------------------
(* analyze_email *)

\* default of the max_retries parameter of _call_gemini_with_retry
MaxRetries == 3

\* `if not self.model`
ModelUnavailable(mdl) == mdl = "none"

\* _prepare_content: joining or regex-stripping a body that is not a string raises;
\* a missing or None body is skipped
PrepareContent(m) == IF m.body.tag \in {"str", "absent", "none"} THEN "ok" ELSE "TypeError"

\* variant of FormatPrompt for a template whose literal braces are doubled: format()
\* returns the prompt
FormatPromptEscaped(m) == "ok"

\* self.analysis_prompt.format(subject=..., sender=..., date=..., content=...): the
\* template (lines 78-123) holds the literal braces of its JSON example, so format()
\* reads `{\n "category": ...}` as a replacement field named '\n            "category"'
\* and raises KeyError, whatever the message
FormatPrompt(m) == "KeyError"

\* float(analysis_data.get("confidence", 0.5))
CoerceConfidence(v) ==
    IF v.tag = "absent" THEN [exc |-> "none", num |-> ConfDefault]
    ELSE IF v.tag \in {"num", "int", "bool"} THEN [exc |-> "none", num |-> v.num]
    ELSE IF v.tag = "str" THEN [exc |-> "ValueError", num |-> 0]   \* not a numeral
    ELSE [exc |-> "TypeError", num |-> 0]                          \* None

\* int(analysis_data.get("priority_score", 5))
CoercePriority(v) ==
    IF v.tag = "absent" THEN [exc |-> "none", num |-> PriorityDefault]
    ELSE IF v.tag \in {"num", "int", "bool"} THEN [exc |-> "none", num |-> v.num]
    ELSE IF v.tag = "str" THEN [exc |-> "ValueError", num |-> 0]   \* not a numeral
    ELSE [exc |-> "TypeError", num |-> 0]                          \* None

\* bool(analysis_data.get(key, False))
Truthy(v) == v.tag = "bool" /\ v.num = 1

\* the EmailAnalysis built from validated data (lines 170-180)
BuildAnalysis(d) ==
    LET conf == CoerceConfidence(d.confidence)
        prio == CoercePriority(d.priority_score)
    IN  IF conf.exc # "none" THEN Raised(conf.exc)
        ELSE IF prio.exc # "none" THEN Raised(prio.exc)
        ELSE Returned(EmailAnalysis(Member(EmailCategory, d.category.val),
                                    Member(EmailAction, d.action.val),
                                    conf.num, prio.num, Truthy(d.has_unsubscribe),
                                    FALSE, "unknown"))

\* the try body from the return of _call_gemini_with_retry on (lines 146-180):
\* what it returns, or the exception that reaches the handler of line 182
ResponseAnalysis(m, r) ==
    IF r.kind = "none" THEN DefaultAnalysis(m)
    ELSE IF r.kind = "notext" THEN Raised("ValueError")
    ELSE IF r.kind \in {"empty", "garbage"} THEN DefaultAnalysis(m)
    ELSE LET v == ValidateAnalysisData(r) IN
         IF v.ret = "false" THEN DefaultAnalysis(m)
         ELSE IF v.ret # "true" THEN Raised(v.ret)
         ELSE BuildAnalysis(v.data)

\* faulty variant of UnavailableAnalysis: a fixed keep decision instead of the rule-based one
ConservativeAnalysis(m) ==
    Returned(EmailAnalysis("notifications", "keep", ConfFallback, PriorityDefault, FALSE, TRUE, "unknown"))

\* `return self._get_default_analysis(email_data)` of the unavailable-model branch
UnavailableAnalysis(m) == DefaultAnalysis(m)

\* faulty variant of HandlerAnalysis: a fixed keep decision instead of the rule-based one
HandlerKeepAnalysis(m) ==
    Returned(EmailAnalysis("notifications", "keep", ConfDefault, PriorityDefault, FALSE, TRUE, "unknown"))

\* the handler of line 182: `return self._get_default_analysis(email_data)`
HandlerAnalysis(m) == DefaultAnalysis(m)

\* faulty variant of Backoff: a linear delay
BackoffLinear(a) == 2 * a

\* time.sleep(2 ** attempt)
Backoff(a) == 2 ^ a

\* `for attempt in range(max_retries)`
InRange(a) == a < MaxRetries

\* faulty variant of MayRetry: the loop gives up one attempt early
MayRetryShort(a) == a < MaxRetries - 2

\* `if attempt < max_retries - 1`
MayRetry(a) == a < MaxRetries - 1

analyzerScratch == << caller, msg, out, attempt, genCalls, callLog, resp, delays,
                      data, valid, emails, idx, results >>
unsubScratch == << links, page, bidx, uresults, log, uemail >>
queryScratch == << analyzed, minConf, selected, report >>
sanitizerScratch == << response_text, cleaned >>
dashboardScratch == << session, bulk, archived_count, archivedOk >>

NoOutcome == Raised("-")

ScratchInit ==
    /\ caller = "-"
    /\ msg = NoMessage
    /\ out = NoOutcome
    /\ attempt = 0
    /\ genCalls = 0
    /\ callLog = << >>
    /\ resp = NoResponse
    /\ delays = << >>
    /\ data = NoResponse
    /\ valid = "-"
    /\ emails = << >>
    /\ idx = 0
    /\ results = << >>

\* __init__: self.model is the GenerativeModel when a key was given and the test call
\* went through, None when any step raised
InitModel(hasKey, testOk) == IF hasKey /\ testOk THEN "available" ELSE "none"

\* analyze_email ends: to its caller, which is the user or analyze_batch
EndAnalyze(o) ==
    /\ out' = o
    /\ pc' = IF top = "analyze_batch" THEN "b_after"
             ELSE IF o.exc = "none" THEN "done" ELSE "raised"

\* analyze_email(email_data) is called
AnalyzeEmail_Call ==
    /\ top = "idle"
    /\ \E m \in Messages : msg' = m
    /\ top' = "analyze_email"
    /\ pc' = "ae_try"
    /\ UNCHANGED << model, caller, out, attempt, genCalls, callLog, resp, delays,
                    data, valid, emails, idx, results >>
    /\ UNCHANGED unsubScratch
    /\ UNCHANGED queryScratch
    /\ UNCHANGED sanitizerScratch
    /\ UNCHANGED dashboardScratch

\* lines 127-145: the model check, the prompt, and the call of _call_gemini_with_retry
AE_Try ==
    /\ pc = "ae_try"
    /\ IF ModelUnavailable(model)
       THEN /\ IF UnavailableAnalysis(msg).exc = "none"
               THEN EndAnalyze(UnavailableAnalysis(msg))
               ELSE pc' = "ae_except" /\ out' = out
            /\ UNCHANGED << caller, attempt, callLog >>
       ELSE IF PrepareContent(msg) # "ok" \/ FormatPrompt(msg) # "ok"
       THEN /\ pc' = "ae_except"
            /\ UNCHANGED << caller, out, attempt, callLog >>
       ELSE /\ pc' = "retry_call"
            /\ caller' = "analyze_email"
            /\ attempt' = 0
            /\ callLog' = << >>
            /\ out' = out
    /\ UNCHANGED << model, top, msg, genCalls, resp, delays, data, valid, emails, idx, results >>
    /\ UNCHANGED unsubScratch
    /\ UNCHANGED queryScratch
    /\ UNCHANGED sanitizerScratch
    /\ UNCHANGED dashboardScratch

\* lines 182-185: any exception of the try body ends in the fallback, whose own
\* exception escapes analyze_email
AE_Except ==
    /\ pc = "ae_except"
    /\ EndAnalyze(HandlerAnalysis(msg))
    /\ UNCHANGED << model, top, caller, msg, attempt, genCalls, callLog, resp, delays,
                    data, valid, emails, idx, results >>
    /\ UNCHANGED unsubScratch
    /\ UNCHANGED queryScratch
    /\ UNCHANGED sanitizerScratch
    /\ UNCHANGED dashboardScratch

-----------------------------------------------------------------------------
(* _call_gemini_with_retry *)

\* _call_gemini_with_retry(prompt) is called on its own
CallGemini_Call ==
    /\ top = "idle"
    /\ top' = "retry"
    /\ pc' = "retry_call"
    /\ caller' = "direct"
    /\ attempt' = 0
    /\ callLog' = << >>
    /\ UNCHANGED << model, msg, out, genCalls, resp, delays, data, valid, emails, idx, results >>
    /\ UNCHANGED unsubScratch
    /\ UNCHANGED queryScratch
    /\ UNCHANGED sanitizerScratch
    /\ UNCHANGED dashboardScratch

\* one iteration of the loop (lines 189-206); with self.model None the attribute
\* lookup raises before any request is made
Retry_Call ==
    /\ pc = "retry_call"
    /\ IF ~InRange(attempt)
       THEN \* the loop ran out: the function falls off its end and returns None
            /\ resp' = NoResponse
            /\ pc' = "retry_ret"
            /\ UNCHANGED << attempt, genCalls, callLog, delays >>
       ELSE \E o \in (IF model = "none" THEN {"AttributeError"} ELSE CallErrors \cup {"ok"}) :
            /\ genCalls' = IF model = "none" THEN genCalls ELSE genCalls + 1
            /\ callLog' = Append(callLog, o)
            /\ IF o = "ok"
               THEN /\ \E r \in Responses : resp' = r
                    /\ pc' = "retry_ret"
                    /\ UNCHANGED << attempt, delays >>
               ELSE IF MayRetry(attempt)
               THEN /\ delays' = Append(delays, Backoff(attempt))
                    /\ attempt' = attempt + 1
                    /\ pc' = "retry_call"
                    /\ resp' = resp
               ELSE /\ resp' = NoResponse
                    /\ pc' = "retry_ret"
                    /\ UNCHANGED << attempt, delays >>
    /\ UNCHANGED << model, top, caller, msg, out, data, valid, emails, idx, results >>
    /\ UNCHANGED unsubScratch
    /\ UNCHANGED queryScratch
    /\ UNCHANGED sanitizerScratch
    /\ UNCHANGED dashboardScratch

\* _call_gemini_with_retry returns: to the direct caller, or into the rest of the
\* try body of analyze_email (lines 146-180)
Retry_Return ==
    /\ pc = "retry_ret"
    /\ IF caller = "direct"
       THEN pc' = "done" /\ out' = out
       ELSE IF ResponseAnalysis(msg, resp).exc = "none"
       THEN EndAnalyze(ResponseAnalysis(msg, resp))
       ELSE pc' = "ae_except" /\ out' = out
    /\ UNCHANGED << model, top, caller, msg, attempt, genCalls, callLog, resp, delays,
                    data, valid, emails, idx, results >>
    /\ UNCHANGED unsubScratch
    /\ UNCHANGED queryScratch
    /\ UNCHANGED sanitizerScratch
    /\ UNCHANGED dashboardScratch

-----------------------------------------------------------------------------
(* _validate_analysis_data called on its own *)

ValidateInputs == { r \in Responses : r.kind \in {"object", "nonobject"} }

Validate_Call ==
    /\ top = "idle"
    /\ \E d \in ValidateInputs :
         /\ data' = ValidateAnalysisData(d).data
         /\ valid' = ValidateAnalysisData(d).ret
    /\ top' = "validate"
    /\ pc' = IF valid' \in {"true", "false"} THEN "done" ELSE "raised"
    /\ UNCHANGED << model, caller, msg, out, attempt, genCalls, callLog, resp, delays,
                    emails, idx, results >>
    /\ UNCHANGED unsubScratch
    /\ UNCHANGED queryScratch
    /\ UNCHANGED sanitizerScratch
    /\ UNCHANGED dashboardScratch

-----------------------------------------------------------------------------
(* analyze_batch *)

\* the pacing delay of line 263
BatchPause == 1

\* line 255, outside the try: the f-string slices email.get("subject", "")[:50]
\* before logger.info is called, which raises TypeError unless the subject is a
\* string or missing (the f-string nests double quotes: Python 3.12 syntax)
LogSubject(m) == IF m.subject.tag \in {"str", "absent"} THEN "ok" ELSE "TypeError"

\* faulty variant of AppendResult: the pair is inserted at the front
PrependResult(rs, m, d) == << [email |-> m, analysis |-> d] >> \o rs

\* results.append((email, analysis))
AppendResult(rs, m, d) == Append(rs, [email |-> m, analysis |-> d])

\* time.sleep(1) of line 263
Pace(ds) == Append(ds, BatchPause)

\* the handler of line 265: `self._get_default_analysis(email)`
BatchHandlerAnalysis(m) == DefaultAnalysis(m)

\* analyze_batch(emails) is called
AnalyzeBatch_Call ==
    /\ top = "idle"
    /\ \E es \in Batches : emails' = es
    /\ top' = "analyze_batch"
    /\ pc' = "b_loop"
    /\ idx' = 1
    /\ results' = << >>
    /\ UNCHANGED << model, caller, msg, out, attempt, genCalls, callLog, resp, delays,
                    data, valid >>
    /\ UNCHANGED unsubScratch
    /\ UNCHANGED queryScratch
    /\ UNCHANGED sanitizerScratch
    /\ UNCHANGED dashboardScratch

\* the head of the for loop (lines 254-258) up to the call of analyze_email, or the
\* return of line 270
B_Loop ==
    /\ pc = "b_loop"
    /\ IF idx > Len(emails)
       THEN pc' = "done" /\ UNCHANGED << msg, genCalls >>
       ELSE IF LogSubject(emails[idx]) # "ok"
       THEN pc' = "raised" /\ UNCHANGED << msg, genCalls >>
       ELSE /\ msg' = emails[idx]
            /\ genCalls' = 0
            /\ pc' = "ae_try"
    /\ UNCHANGED << model, top, caller, out, attempt, callLog, resp, delays,
                    data, valid, emails, idx, results >>
    /\ UNCHANGED unsubScratch
    /\ UNCHANGED queryScratch
    /\ UNCHANGED sanitizerScratch
    /\ UNCHANGED dashboardScratch

\* analyze_email came back (lines 259-268): the pair is appended and the loop pauses,
\* or the handler appends the fallback, whose own exception escapes analyze_batch
B_After ==
    /\ pc = "b_after"
    /\ IF out.exc = "none"
       THEN /\ results' = AppendResult(results, emails[idx], out.dec)
            /\ delays' = Pace(delays)
            /\ idx' = idx + 1
            /\ pc' = "b_loop"
       ELSE IF BatchHandlerAnalysis(emails[idx]).exc = "none"
       THEN /\ results' = AppendResult(results, emails[idx], BatchHandlerAnalysis(emails[idx]).dec)
            /\ idx' = idx + 1
            /\ pc' = "b_loop"
            /\ delays' = delays
       ELSE /\ pc' = "raised"
            /\ UNCHANGED << results, idx, delays >>
    /\ UNCHANGED << model, top, caller, msg, out, attempt, genCalls, callLog, resp,
                    data, valid, emails >>
    /\ UNCHANGED unsubScratch
    /\ UNCHANGED queryScratch
    /\ UNCHANGED sanitizerScratch
    /\ UNCHANGED dashboardScratch

-----------------------------------------------------------------------------
(* SmartUnsubscriber *)

\* the pacing delay of line 314
LinkPause == 2

Url(base, path) == [base |-> base, path |-> path]
NoUrl == Url("", "")

\* UnsubscribeResult; isNone marks the None that attempt_link_unsubscribe returns
\* for a control that is not an anchor
UnsubscribeResult(success, message, method, url) ==
    [isNone |-> FALSE, success |-> success, message |-> message, method |-> method, url |-> url]
NoneValue ==
    [isNone |-> TRUE, success |-> FALSE, message |-> "", method |-> "", url |-> NoUrl]

\* the URLs of the samples, by the name the model gives them
HrefChars ==
       ("u1" :> <<"h","t","t","p","s",":","/","/","x",".","c","o","m","/","u","?","t","=","1">>)
    @@ ("u2" :> <<"h","t","t","p",":","/","/","x",".","c","o","m","/","O","p","t","-","O","u","t">>)
    @@ ("u3" :> <<"h","t","t","p","s",":","/","/","x",".","c","o","m","/","h","o","m","e">>)
    @@ ("m1" :> <<"m","a","i","l","t","o",":","o","f","f","@","x",".","c","o","m">>)

TxtUnsubscribeLink == <<"U","n","s","u","b","s","c","r","i","b","e">>
TxtHome == <<" ","H","o","m","e"," ">>

\* a regular expression `a[\-_]?b`: the strings it matches
OptionalDash(a, b) == { a \o b, a \o << "-" >> \o b, a \o << "_" >> \o b }

\* self.unsubscribe_patterns (lines 29-38), each by the strings it matches
unsubscribe_patterns ==
    { <<"u","n","s","u","b","s","c","r","i","b","e">> }
    \cup OptionalDash(<<"o","p","t">>, <<"o","u","t">>)
    \cup OptionalDash(<<"r","e","m","o","v","e">>, <<"m","e">>)
    \cup OptionalDash(<<"s","t","o","p">>, <<"e","m","a","i","l","s">>)
    \cup OptionalDash(<<"e","m","a","i","l">>, <<"p","r","e","f","e","r","e","n","c","e","s">>)
    \cup OptionalDash(<<"m","a","n","a","g","e">>, <<"s","u","b","s","c","r","i","p","t","i","o","n">>)
    \cup OptionalDash(<<"l","e","a","v","e">>, <<"l","i","s","t">>)
    \cup OptionalDash(<<"c","a","n","c","e","l">>, <<"s","u","b","s","c","r","i","p","t","i","o","n">>)

\* re.search(pattern, s, re.IGNORECASE) for some pattern of the list
SearchAny(patterns, s) == \E k \in patterns : Contains(Lower(s), k)

\* lines 70-76: the link text, lower-cased and stripped, or the href matches a pattern
LinkMatches(href, text) ==
    SearchAny(unsubscribe_patterns, Strip(Lower(text)))
    \/ SearchAny(unsubscribe_patterns, HrefChars[href])

\* `https?://` at the start of a URL in angle brackets, with at least one character
\* after it
IsHttp(u) ==
    \/ Len(u) > 7 /\ SubSeq(u, 1, 7) = <<"h","t","t","p",":","/","/">>
    \/ Len(u) > 8 /\ SubSeq(u, 1, 8) = <<"h","t","t","p","s",":","/","/">>

\* Message content (body_html or body_text): its anchors with an href, each with its
\* href, its text and whether the two match an unsubscribe pattern, and the URLs
\* written in angle brackets; present is FALSE for a missing or empty body
Content(anchors, angled) == [present |-> TRUE, anchors |-> anchors, angled |-> angled]
NoContent == [present |-> FALSE, anchors |-> << >>, angled |-> << >>]
Anchor(href, text) == [href |-> href, text |-> text, matches |-> LinkMatches(href, text)]

UEmail(html, text) == [body_html |-> html, body_text |-> text]

UEmails ==
    { UEmail(NoContent, NoContent),
      UEmail(Content(<< Anchor("u1", TxtHome) >>, << "m1" >>), NoContent),
      UEmail(Content(<< Anchor("u1", TxtUnsubscribeLink) >>, << >>), NoContent),
      UEmail(NoContent, Content(<< >>, << "m1", "u2" >>)),
      UEmail(Content(<< Anchor("u1", TxtUnsubscribeLink), Anchor("u2", TxtHome) >>, << >>), NoContent),
      UEmail(Content(<< Anchor("u2", TxtHome), Anchor("u3", TxtHome) >>, << "u2", "u1" >>),
             Content(<< >>, << "u1" >>)) }

\* email_data.get('body_html') or email_data.get('body_text')
EmailContent(e) == IF e.body_html.present THEN e.body_html ELSE e.body_text

\* re.findall(r'<(https?://[^>]+)>', email_content)
ListUnsubscribeMatches(c) == SelectSeq(c.angled, LAMBDA u : IsHttp(HrefChars[u]))

\* faulty variant of ExtractLinkSet: the href of every anchor is taken
ExtractLinkSetAllAnchors(c) ==
    { c.anchors[i].href : i \in 1..Len(c.anchors) }
    \cup { ListUnsubscribeMatches(c)[i] : i \in 1..Len(ListUnsubscribeMatches(c)) }

\* extract_unsubscribe_links before the conversion to a list: set(links)
ExtractLinkSet(c) ==
    { c.anchors[i].href : i \in { j \in 1..Len(c.anchors) : c.anchors[j].matches } }
    \cup { ListUnsubscribeMatches(c)[i] : i \in 1..Len(ListUnsubscribeMatches(c)) }

\* list(set(links)): the elements in the iteration order of a set of strings, which
\* the string hash seed of the interpreter run decides
ListsOfSet(S) ==
    { q \in [1..Cardinality(S) -> S] : \A x \in S : \E i \in 1..Cardinality(S) : q[i] = x }

\* A fetched page: whether find_unsubscribe_form finds a form, and the types of the
\* controls find_unsubscribe_buttons returns (button and input elements first, then
\* the anchors, type 'link')
Page(form, buttons) == [form |-> form, buttons |-> buttons]
NoPage == Page(FALSE, << >>)

Pages ==
    { Page(f, b) : f \in BOOLEAN,
                   b \in { << >>, << "link" >>, << "link", "link" >>,
                           << "submit" >>, << "submit", "link" >> } }

\* what a request raises: the network failed or the timeout ran out (both
\* requests.RequestException from the send), or raise_for_status met a status that
\* is not 2xx
TransportErrors == {"ConnectionError", "HTTPError"}

\* response bodies, by the confirmation phrase they hold
Bodies == {"successfully unsubscribed", "email preferences updated", "thank you"}

\* success_indicators of attempt_form_unsubscribe, among Bodies; a body holding
\* "successfully unsubscribed" also holds "unsubscribed"
FormIndicators == {"successfully unsubscribed", "removed from list", "unsubscribed",
                   "opt out successful", "email preferences updated"}

\* success_indicators of attempt_link_unsubscribe
LinkIndicators == {"successfully unsubscribed", "removed from list", "unsubscribed",
                   "opt out successful"}

\* attempt_form_unsubscribe, given what the submission raised or returned
FormResult(link, o) ==
    IF o \in TransportErrors
    THEN UnsubscribeResult(FALSE, "Error", "form", Url(link, "action"))
    ELSE UnsubscribeResult(o \in FormIndicators, "Form submission completed", "form",
                           Url(link, "action"))

\* attempt_link_unsubscribe on a control of type 'link', given what the request
\* raised or returned
LinkResult(link, o) ==
    IF o \in TransportErrors
    THEN UnsubscribeResult(FALSE, "Error", "link", Url("", "href"))
    ELSE UnsubscribeResult(o \in LinkIndicators, "Link clicked", "link", Url(link, "href"))

\* faulty variant of ErrorResult: the handler labels its result with the method of the
\* click attempts
ErrorResultAsLink(link) == UnsubscribeResult(FALSE, "Error processing link", "link", Url(link, ""))

\* faulty variant of ErrorResult: the result does not say which link failed
ErrorResultBlank(link) == UnsubscribeResult(FALSE, "Error processing link", "error", NoUrl)

\* the result appended by the handler of line 316
ErrorResult(link) == UnsubscribeResult(FALSE, "Error processing link", "error", Url(link, ""))

\* faulty variant of NoLinksResult: the result is labelled as the handler's
NoLinksResultAsError == UnsubscribeResult(FALSE, "No unsubscribe links found", "error", NoUrl)

\* the results of lines 268 and 280
NoContentResult == UnsubscribeResult(FALSE, "No email content", "none", NoUrl)
NoLinksResult == UnsubscribeResult(FALSE, "No unsubscribe links found", "none", NoUrl)

\* log entries
Request(phase, link, o) ==
    [ev |-> "request", phase |-> phase, link |-> link, failed |-> o \in TransportErrors,
     outcome |-> o, result |-> NoneValue, secs |-> 0]
Recorded(phase, link, r) ==
    [ev |-> "result", phase |-> phase, link |-> link, failed |-> FALSE,
     outcome |-> "", result |-> r, secs |-> 0]
Slept(link, n) ==
    [ev |-> "sleep", phase |-> "", link |-> link, failed |-> FALSE,
     outcome |-> "", result |-> NoneValue, secs |-> n]

\* faulty variant of ClickStops: the loop over the controls goes on after a success
ClickGoesOn(r) == FALSE

\* `if result.success: break` of line 310 leaves the loop over the controls
ClickStops(r) == r.success

analyzerScratchButIdx == << caller, msg, out, attempt, genCalls, callLog, resp, delays,
                            data, valid, emails, results >>

NoUEmail == UEmail(NoContent, NoContent)

UnsubScratchInit ==
    /\ links = << >>
    /\ page = NoPage
    /\ bidx = 0
    /\ uresults = << >>
    /\ log = << >>
    /\ uemail = NoUEmail

\* unsubscribe_from_email(email_data) is called: lines 263-286
Unsubscribe_Call ==
    /\ top = "idle"
    /\ top' = "unsubscribe"
    /\ \E e \in UEmails :
         /\ uemail' = e
         /\ IF ~EmailContent(e).present
            THEN /\ uresults' = << NoContentResult >>
                 /\ log' = << Recorded("content", "", NoContentResult) >>
                 /\ pc' = "done"
                 /\ UNCHANGED << links, idx >>
            ELSE IF ExtractLinkSet(EmailContent(e)) = {}
            THEN /\ uresults' = << NoLinksResult >>
                 /\ log' = << Recorded("extract", "", NoLinksResult) >>
                 /\ pc' = "done"
                 /\ UNCHANGED << links, idx >>
            ELSE /\ \E ls \in ListsOfSet(ExtractLinkSet(EmailContent(e))) : links' = ls
                 /\ idx' = 1
                 /\ pc' = "u_visit"
                 /\ UNCHANGED << uresults, log >>
    /\ UNCHANGED << model, caller, msg, out, attempt, genCalls, callLog, resp, delays,
                    data, valid, emails, results, page, bidx >>
    /\ UNCHANGED queryScratch
    /\ UNCHANGED sanitizerScratch
    /\ UNCHANGED dashboardScratch

\* the head of the loop over the links and visit_unsubscribe_page (lines 289-295);
\* an exception of the fetch goes to the handler of line 316
U_Visit ==
    /\ pc = "u_visit"
    /\ IF idx > Len(links)
       THEN pc' = "done" /\ UNCHANGED << idx, page, uresults, log >>
       ELSE \/ \E e \in TransportErrors :
                 /\ uresults' = Append(uresults, ErrorResult(links[idx]))
                 /\ log' = log \o << Request("fetch", links[idx], e),
                                     Recorded("fetch", links[idx], ErrorResult(links[idx])) >>
                 /\ idx' = idx + 1
                 /\ pc' = "u_visit"
                 /\ page' = page
            \/ \E p \in Pages :
                 /\ page' = p
                 /\ log' = Append(log, Request("fetch", links[idx], "page"))
                 /\ pc' = "u_form"
                 /\ UNCHANGED << idx, uresults >>
    /\ bidx' = bidx
    /\ UNCHANGED << model, top, links >>
    /\ UNCHANGED analyzerScratchButIdx
    /\ UNCHANGED << uemail, analyzed, minConf, selected, report >>
    /\ UNCHANGED sanitizerScratch
    /\ UNCHANGED dashboardScratch

\* lines 297-303: the form, when the page has one
U_Form ==
    /\ pc = "u_form"
    /\ IF page.form
       THEN \E o \in TransportErrors \cup Bodies :
              /\ uresults' = Append(uresults, FormResult(links[idx], o))
              /\ log' = log \o << Request("form", links[idx], o),
                                  Recorded("form", links[idx], FormResult(links[idx], o)) >>
              /\ IF FormResult(links[idx], o).success
                 THEN pc' = "done" /\ bidx' = bidx
                 ELSE pc' = "u_button" /\ bidx' = 1
       ELSE /\ pc' = "u_button"
            /\ bidx' = 1
            /\ UNCHANGED << uresults, log >>
    /\ UNCHANGED << model, top, links, idx, page >>
    /\ UNCHANGED analyzerScratchButIdx
    /\ UNCHANGED << uemail, analyzed, minConf, selected, report >>
    /\ UNCHANGED sanitizerScratch
    /\ UNCHANGED dashboardScratch

\* lines 305-323: one control of the page, or the pause after the last one.  A control
\* that is not an anchor makes attempt_link_unsubscribe return None: the None is
\* appended, `result.success` raises AttributeError, and the handler of line 316
\* appends an error result and goes on with the next link.
U_Button ==
    /\ pc = "u_button"
    /\ IF bidx > Len(page.buttons)
       THEN /\ log' = Append(log, Slept(links[idx], LinkPause))
            /\ idx' = idx + 1
            /\ pc' = "u_visit"
            /\ UNCHANGED << uresults, bidx >>
       ELSE IF page.buttons[bidx] = "link"
       THEN \E o \in TransportErrors \cup Bodies :
              /\ uresults' = Append(uresults, LinkResult(links[idx], o))
              /\ IF ClickStops(LinkResult(links[idx], o))
                 THEN /\ log' = log \o << Request("click", links[idx], o),
                                          Recorded("click", links[idx], LinkResult(links[idx], o)),
                                          Slept(links[idx], LinkPause) >>
                      /\ idx' = idx + 1
                      /\ pc' = "u_visit"
                      /\ bidx' = bidx
                 ELSE /\ log' = log \o << Request("click", links[idx], o),
                                          Recorded("click", links[idx], LinkResult(links[idx], o)) >>
                      /\ bidx' = bidx + 1
                      /\ UNCHANGED << idx, pc >>
       ELSE /\ uresults' = uresults \o << NoneValue, ErrorResult(links[idx]) >>
            /\ log' = log \o << Recorded("click", links[idx], NoneValue),
                                Recorded("click", links[idx], ErrorResult(links[idx])) >>
            /\ idx' = idx + 1
            /\ pc' = "u_visit"
            /\ bidx' = bidx
    /\ UNCHANGED << model, top, links, page >>
    /\ UNCHANGED analyzerScratchButIdx
    /\ UNCHANGED << uemail, analyzed, minConf, selected, report >>
    /\ UNCHANGED sanitizerScratch
    /\ UNCHANGED dashboardScratch

-----------------------------------------------------------------------------
(* get_deletion_candidates, get_unsubscribe_candidates, generate_summary_report *)

\* longest analyzed_emails list handed to the three functions
MaxAnalyzed == 2

\* default of the min_confidence parameter, in hundredths
MinConfidenceDefault == 70

\* `analysis.priority_score <= 3`
DeletionPriorityMax == 3

\* the priority_distribution keys: range(1, 11)
PriorityKeys == 1..10

\* min_confidence as passed by the caller, or left to its default
MinConfidences == {50, MinConfidenceDefault, 90}

\* the EmailAnalysis objects of the pairs: service-built decisions and decisions of
\* the rule-based fallback
AnalysisSamples ==
    { EmailAnalysis("spam", "delete", 90, 2, FALSE, TRUE, "unknown"),
      EmailAnalysis("spam", "delete", 50, 2, FALSE, TRUE, "unknown"),
      EmailAnalysis("spam", "delete", 70, 3, FALSE, TRUE, "unknown"),
      EmailAnalysis("old_unimportant", "delete", 90, 4, FALSE, FALSE, "unknown"),
      EmailAnalysis("promotions", "unsubscribe", 90, 3, TRUE, TRUE, "unknown"),
      EmailAnalysis("promotions", "unsubscribe", 60, 3, FALSE, TRUE, "unknown"),
      EmailAnalysis("newsletters", "unsubscribe", 80, 4, TRUE, TRUE, "unknown"),
      EmailAnalysis("social", "unsubscribe", 80, 4, TRUE, TRUE, "unknown"),
      EmailAnalysis("newsletters", "archive", 60, 4, TRUE, TRUE, "unknown"),
      EmailAnalysis("work", "keep", 100, 10, FALSE, FALSE, "unknown") }

\* an (email, analysis) tuple
Pair(m, d) == [email |-> m, analysis |-> d]

Pairs ==
    { Pair(EmailData(Str(SubjPromo), Str(FromStore), Str(SubjPlain)), d) : d \in AnalysisSamples }
    \cup { Pair(EmailData(Str(SubjPlain), Str(FromSocial), Absent),
                EmailAnalysis("spam", "delete", 90, 2, FALSE, TRUE, "unknown")) }

AnalyzedLists == SeqsUpTo(Pairs, MaxAnalyzed)

\* faulty variant of DeletionCondition: the confidence is not looked at
DeletionConditionAnyConfidence(a, min_confidence) ==
    /\ a.action = "delete"
    /\ a.priority_score <= DeletionPriorityMax

\* faulty variant of DeletionCondition: the threshold itself is excluded
DeletionConditionStrict(a, min_confidence) ==
    /\ a.action = "delete"
    /\ a.confidence > min_confidence
    /\ a.priority_score <= DeletionPriorityMax

\* the condition of lines 360-362
DeletionCondition(a, min_confidence) ==
    /\ a.action = "delete"
    /\ a.confidence >= min_confidence
    /\ a.priority_score <= DeletionPriorityMax

\* the loop of get_deletion_candidates: each pair that meets the condition is
\* appended to a new list
GetDeletionCandidates(analyzed_emails, min_confidence) ==
    SelectSeq(analyzed_emails, LAMBDA p : DeletionCondition(p.analysis, min_confidence))

\* faulty variant of UnsubscribeCondition: has_unsubscribe is not looked at
UnsubscribeConditionAnyLink(a) ==
    /\ a.action = "unsubscribe"
    /\ a.category \in {"promotions", "newsletters"}

\* the condition of lines 372-374
UnsubscribeCondition(a) ==
    /\ a.action = "unsubscribe"
    /\ a.has_unsubscribe
    /\ a.category \in {"promotions", "newsletters"}

\* the loop of get_unsubscribe_candidates
GetUnsubscribeCandidates(analyzed_emails) ==
    SelectSeq(analyzed_emails, LAMBDA p : UnsubscribeCondition(p.analysis))

\* avg_confidence, a quotient of a sum in hundredths by a count, kept as the pair
Quotient(num, den) == [num |-> num, den |-> den]

\* the dict generate_summary_report returns; empty marks `{}`.  categories and
\* actions give 0 to a value that is no key of the dict.
Report(empty, total, categories, actions, priorities, size, deletions, unsubscribes, avg) ==
    [exc |-> "none", empty |-> empty, total_emails |-> total, categories |-> categories,
     actions |-> actions, priority_distribution |-> priorities, estimated_size_kb |-> size,
     deletion_candidates |-> deletions, unsubscribe_candidates |-> unsubscribes,
     avg_confidence |-> avg]

NoCounts(keys) == [k \in keys |-> 0]

EmptyReport ==
    Report(TRUE, 0, NoCounts(EmailCategory), NoCounts(EmailAction), NoCounts(PriorityKeys),
           0, 0, 0, Quotient(0, 0))

\* generate_summary_report raised
RaisedReport(e) == [EmptyReport EXCEPT !.exc = e, !.empty = FALSE]

\* placeholder where no call of generate_summary_report has ended
NoReport == RaisedReport("-")

\* faulty variant of ReportEmpty: the early return is never taken
ReportEmptyNever(total_emails) == FALSE

\* `if total_emails == 0`
ReportEmpty(total_emails) == total_emails = 0

\* len(email.get("body_html", "")) + len(email.get("body_text", "")): -1 stands for
\* the TypeError of len() on a value that is not a string
ContentLength(m) ==
    IF m.body.tag = "str" THEN Len(m.body.val)
    ELSE IF m.body.tag = "absent" THEN 0
    ELSE -1

\* sum(analysis.confidence for _, analysis in analyzed_emails)
RECURSIVE SumConfidence(_)
SumConfidence(es) ==
    IF es = << >> THEN 0 ELSE Head(es).analysis.confidence + SumConfidence(Tail(es))

\* total_size_estimate, in thousandths of a KB
RECURSIVE SumContentLength(_)
SumContentLength(es) ==
    IF es = << >> THEN 0 ELSE ContentLength(Head(es).email) + SumContentLength(Tail(es))

\* the pairs at which the loop body raises
RaisingPairs(es) ==
    { i \in 1..Len(es) : es[i].analysis.priority_score \notin PriorityKeys
                         \/ ContentLength(es[i].email) < 0 }

\* faulty variant of CountOf: a pair counts only at the default confidence or above
CountOfConfident(es, field, v) ==
    Cardinality({ i \in 1..Len(es) : /\ es[i].analysis[field] = v
                                     /\ es[i].analysis.confidence >= MinConfidenceDefault })

\* the counters of the loop of lines 391-402 and the sums of lines 414-415
CountOf(es, field, v) == Cardinality({ i \in 1..Len(es) : es[i].analysis[field] = v })

\* generate_summary_report (lines 379-417)
SummaryReport(es) ==
    IF ReportEmpty(Len(es)) THEN EmptyReport
    ELSE IF RaisingPairs(es) # {}
    THEN LET i == CHOOSE j \in RaisingPairs(es) : \A k \in RaisingPairs(es) : j <= k
         IN  IF es[i].analysis.priority_score \notin PriorityKeys
             THEN RaisedReport("KeyError")      \* priority_distribution[...] += 1
             ELSE RaisedReport("TypeError")     \* len(None)
    ELSE IF Len(es) = 0 THEN RaisedReport("ZeroDivisionError")   \* sum(...) / total_emails
    ELSE Report(FALSE, Len(es),
                [c \in EmailCategory |-> CountOf(es, "category", c)],
                [a \in EmailAction |-> CountOf(es, "action", a)],
                [n \in PriorityKeys |-> CountOf(es, "priority_score", n)],
                SumContentLength(es) \div 1000,
                CountOf(es, "action", "delete"),
                CountOf(es, "action", "unsubscribe"),
                Quotient(SumConfidence(es), Len(es)))

QueryScratchInit ==
    /\ analyzed = << >>
    /\ minConf = 0
    /\ selected = << >>
    /\ report = NoReport

\* get_deletion_candidates(analyzed_emails, min_confidence) is called
GetDeletionCandidates_Call ==
    /\ top = "idle"
    /\ top' = "get_deletion_candidates"
    /\ pc' = "q_body"
    /\ \E es \in AnalyzedLists : analyzed' = es
    /\ \E t \in MinConfidences : minConf' = t
    /\ UNCHANGED << model, selected, report >>
    /\ UNCHANGED analyzerScratch
    /\ UNCHANGED unsubScratch
    /\ UNCHANGED sanitizerScratch
    /\ UNCHANGED dashboardScratch

\* get_unsubscribe_candidates(analyzed_emails) is called
GetUnsubscribeCandidates_Call ==
    /\ top = "idle"
    /\ top' = "get_unsubscribe_candidates"
    /\ pc' = "q_body"
    /\ \E es \in AnalyzedLists : analyzed' = es
    /\ UNCHANGED << model, minConf, selected, report >>
    /\ UNCHANGED analyzerScratch
    /\ UNCHANGED unsubScratch
    /\ UNCHANGED sanitizerScratch
    /\ UNCHANGED dashboardScratch

\* generate_summary_report(analyzed_emails) is called
GenerateSummaryReport_Call ==
    /\ top = "idle"
    /\ top' = "generate_summary_report"
    /\ pc' = "q_body"
    /\ \E es \in AnalyzedLists : analyzed' = es
    /\ UNCHANGED << model, minConf, selected, report >>
    /\ UNCHANGED analyzerScratch
    /\ UNCHANGED unsubScratch
    /\ UNCHANGED sanitizerScratch
    /\ UNCHANGED dashboardScratch

\* the list analyze_batch returned is handed to get_deletion_candidates
GetDeletionCandidates_OnBatch ==
    /\ top = "analyze_batch"
    /\ pc = "done"
    /\ top' = "get_deletion_candidates"
    /\ pc' = "q_body"
    /\ analyzed' = results
    /\ \E t \in MinConfidences : minConf' = t
    /\ UNCHANGED << model, selected, report >>
    /\ UNCHANGED analyzerScratch
    /\ UNCHANGED unsubScratch
    /\ UNCHANGED sanitizerScratch
    /\ UNCHANGED dashboardScratch

\* the list analyze_batch returned is handed to get_unsubscribe_candidates
GetUnsubscribeCandidates_OnBatch ==
    /\ top = "analyze_batch"
    /\ pc = "done"
    /\ top' = "get_unsubscribe_candidates"
    /\ pc' = "q_body"
    /\ analyzed' = results
    /\ UNCHANGED << model, minConf, selected, report >>
    /\ UNCHANGED analyzerScratch
    /\ UNCHANGED unsubScratch
    /\ UNCHANGED sanitizerScratch
    /\ UNCHANGED dashboardScratch

\* the list analyze_batch returned is handed to generate_summary_report
GenerateSummaryReport_OnBatch ==
    /\ top = "analyze_batch"
    /\ pc = "done"
    /\ top' = "generate_summary_report"
    /\ pc' = "q_body"
    /\ analyzed' = results
    /\ UNCHANGED << model, minConf, selected, report >>
    /\ UNCHANGED analyzerScratch
    /\ UNCHANGED unsubScratch
    /\ UNCHANGED sanitizerScratch
    /\ UNCHANGED dashboardScratch

\* the body of the function called: it reads analyzed_emails and returns a new list
\* or dict, or raises
Query_Body ==
    /\ pc = "q_body"
    /\ IF top = "get_deletion_candidates"
       THEN /\ selected' = GetDeletionCandidates(analyzed, minConf)
            /\ pc' = "done"
            /\ report' = report
       ELSE IF top = "get_unsubscribe_candidates"
       THEN /\ selected' = GetUnsubscribeCandidates(analyzed)
            /\ pc' = "done"
            /\ report' = report
       ELSE /\ report' = SummaryReport(analyzed)
            /\ pc' = IF SummaryReport(analyzed).exc = "none" THEN "done" ELSE "raised"
            /\ selected' = selected
    /\ UNCHANGED << model, top, analyzed, minConf >>
    /\ UNCHANGED analyzerScratch
    /\ UNCHANGED unsubScratch
    /\ UNCHANGED sanitizerScratch
    /\ UNCHANGED dashboardScratch

-----------------------------------------------------------------------------
(* _clean_json_response *)

\* longest response text made of the characters of TextChars
MaxText == 4

NL == "\n"
CR == "\r"
\* the backtick, which a TLA+ string cannot hold
BackTick == "bt"

\* the characters str.strip() and \s take for white space, among those of the texts
WhiteSpace == {" ", NL, CR}

\* str.strip(chars): the characters of the set are removed from both ends
RECURSIVE LStripSet(_, _)
LStripSet(s, C) == IF s # << >> /\ Head(s) \in C THEN LStripSet(Tail(s), C) ELSE s
RECURSIVE RStripSet(_, _)
RStripSet(s, C) ==
    IF s # << >> /\ s[Len(s)] \in C THEN RStripSet(SubSeq(s, 1, Len(s) - 1), C) ELSE s
StripSet(s, C) == RStripSet(LStripSet(s, C), C)

\* response_text.strip().strip("```json").strip("```").strip(): the second and third
\* strip remove characters of a set, not a prefix or suffix
StripFences(s) ==
    StripSet(StripSet(StripSet(StripSet(s, WhiteSpace), {BackTick, "j", "s", "o", "n"}), {BackTick}),
             WhiteSpace)

\* re.search(r'\{.*\}', response_text, re.DOTALL): from the first { to the last },
\* when the last } stands after the first {; the text itself when there is no match
ExtractObject(s) ==
    LET opens  == { i \in 1..Len(s) : s[i] = "{" }
        closes == { i \in 1..Len(s) : s[i] = "}" }
    IN  IF opens = {} \/ closes = {} THEN s
        ELSE LET first == CHOOSE i \in opens : \A j \in opens : i <= j
                 last  == CHOOSE i \in closes : \A j \in closes : j <= i
             IN  IF first < last THEN SubSeq(s, first, last) ELSE s

\* the position of the first character of s at or after i that is not white space
RECURSIVE SkipSpace(_, _)
SkipSpace(s, i) == IF i <= Len(s) /\ s[i] \in WhiteSpace THEN SkipSpace(s, i + 1) ELSE i

\* re.sub(r',(\s*[}\]])', r'\1', response_text) from position i on: one pass from left
\* to right, a comma followed by optional white space and a closing bracket is
\* dropped and the scan goes on after the bracket
RECURSIVE RemoveTrailingCommas(_, _)
RemoveTrailingCommas(s, i) ==
    IF i > Len(s) THEN << >>
    ELSE IF s[i] = "," /\ SkipSpace(s, i + 1) <= Len(s) /\ s[SkipSpace(s, i + 1)] \in {"}", "]"}
    THEN SubSeq(s, i + 1, SkipSpace(s, i + 1)) \o RemoveTrailingCommas(s, SkipSpace(s, i + 1) + 1)
    ELSE << s[i] >> \o RemoveTrailingCommas(s, i + 1)

\* response_text.replace('\n', '').replace('\r', '')
RemoveNewlines(s) == SelectSeq(s, LAMBDA c : c \notin {NL, CR})

\* _clean_json_response (lines 208-225)
CleanJsonResponse(s) == RemoveNewlines(RemoveTrailingCommas(ExtractObject(StripFences(s)), 1))

\* the characters of the texts that are enumerated up to MaxText
TextChars == {"{", "}", ",", NL, "n", "a", BackTick}

\* answers of the service: a JSON object on one line, the same inside a code fence
\* with a trailing comma, and an object with a string that holds commas and a brace
TxtJsonObject == <<"{","\"","a","\"",":","1","}">>
TxtFenced == <<BackTick,BackTick,BackTick,"j","s","o","n",NL,"{","\"","a","\"",":","1",",",NL,"}",NL,BackTick,BackTick,BackTick>>
TxtJsonCommaString == <<"{","\"","a","\"",":","\"",",",",","}","\"","}">>

ResponseTexts == SeqsUpTo(TextChars, MaxText) \cup {TxtJsonObject, TxtFenced, TxtJsonCommaString}

SanitizerScratchInit ==
    /\ response_text = << >>
    /\ cleaned = << >>

\* _clean_json_response(response_text) is called on its own
CleanJsonResponse_Call ==
    /\ top = "idle"
    /\ top' = "clean_json_response"
    /\ pc' = "c_body"
    /\ \E t \in ResponseTexts : response_text' = t
    /\ cleaned' = cleaned
    /\ UNCHANGED model
    /\ UNCHANGED analyzerScratch
    /\ UNCHANGED unsubScratch
    /\ UNCHANGED queryScratch
    /\ UNCHANGED dashboardScratch

\* the body of _clean_json_response
CleanJsonResponse_Body ==
    /\ pc = "c_body"
    /\ cleaned' = CleanJsonResponse(response_text)
    /\ pc' = "done"
    /\ UNCHANGED << model, top, response_text >>
    /\ UNCHANGED analyzerScratch
    /\ UNCHANGED unsubScratch
    /\ UNCHANGED queryScratch
    /\ UNCHANGED dashboardScratch

-----------------------------------------------------------------------------
(* EmailCleanerDashboard.bulk_archive_emails *)

\* most emails in st.session_state.analyzed_emails
MaxSession == 3

\* an entry of st.session_state.analyzed_emails: its Gmail id and the action decided
SessionEmail(id, action) == [id |-> id, action |-> action]

\* the session lists: the ids of the messages fetched are distinct
Sessions ==
    UNION { { [i \in 1..n |-> SessionEmail(i, acts[i])] : acts \in [1..n -> {"archive", "keep"}] }
            : n \in 0..MaxSession }

\* the list "Archive All" hands over: the entries whose action is archive
ArchiveSelection(analyzed_emails) == SelectSeq(analyzed_emails, LAMBDA e : e.action = "archive")

\* archive_email: False when the manager is not authenticated or the modify call
\* raised, True when the call went through
ArchiveEmail(authenticated, executed) == authenticated /\ executed

\* [email['id'] for email in emails[:archived_count]]
ArchivedIds(es, count) == { es[i].id : i \in { j \in 1..Len(es) : j <= count } }

\* [e for e in st.session_state.analyzed_emails if e['id'] not in archived_ids]
RemoveArchived(analyzed_emails, archived_ids) ==
    SelectSeq(analyzed_emails, LAMBDA e : e.id \notin archived_ids)

DashboardScratchInit ==
    /\ session = << >>
    /\ bulk = << >>
    /\ archived_count = 0
    /\ archivedOk = {}

\* "Archive All" is pressed: bulk_archive_emails(archive_emails) is called
BulkArchive_Call ==
    /\ top = "idle"
    /\ top' = "bulk_archive_emails"
    /\ pc' = "ba_loop"
    /\ \E es \in Sessions : session' = es /\ bulk' = ArchiveSelection(es)
    /\ archived_count' = 0
    /\ archivedOk' = {}
    /\ idx' = 1
    /\ UNCHANGED model
    /\ UNCHANGED analyzerScratchButIdx
    /\ UNCHANGED unsubScratch
    /\ UNCHANGED queryScratch
    /\ UNCHANGED sanitizerScratch

\* one turn of the for loop (lines 753-758): archive_email on the next email;
\* archivedOk records the ids for which it returned True
BA_Loop ==
    /\ pc = "ba_loop"
    /\ idx <= Len(bulk)
    /\ \E authenticated \in BOOLEAN, executed \in BOOLEAN :
         IF ArchiveEmail(authenticated, executed)
         THEN /\ archived_count' = archived_count + 1
              /\ archivedOk' = archivedOk \cup {bulk[idx].id}
         ELSE UNCHANGED << archived_count, archivedOk >>
    /\ idx' = idx + 1
    /\ UNCHANGED << model, top, pc, session, bulk >>
    /\ UNCHANGED analyzerScratchButIdx
    /\ UNCHANGED unsubScratch
    /\ UNCHANGED queryScratch
    /\ UNCHANGED sanitizerScratch

\* after the loop (lines 760-768): the session list loses the entries whose id is
\* among the first archived_count ids of the list handed over
BA_Remove ==
    /\ pc = "ba_loop"
    /\ idx > Len(bulk)
    /\ session' = RemoveArchived(session, ArchivedIds(bulk, archived_count))
    /\ pc' = "done"
    /\ UNCHANGED << model, top, bulk, archived_count, archivedOk, idx >>
    /\ UNCHANGED analyzerScratchButIdx
    /\ UNCHANGED unsubScratch
    /\ UNCHANGED queryScratch
    /\ UNCHANGED sanitizerScratch

-----------------------------------------------------------------------------
(* The specification *)

Init ==
    /\ \E hasKey \in BOOLEAN, testOk \in BOOLEAN : model = InitModel(hasKey, testOk)
    /\ top = "idle"
    /\ pc = "idle"
    /\ ScratchInit
    /\ UnsubScratchInit
    /\ QueryScratchInit
    /\ SanitizerScratchInit
    /\ DashboardScratchInit

\* the call in progress has returned or raised: the caller takes the outcome and the
\* next call starts from fresh locals
Finish ==
    /\ pc \in {"done", "raised"}
    /\ top' = "idle"
    /\ pc' = "idle"
    /\ model' = model
    /\ caller' = "-"
    /\ msg' = NoMessage
    /\ out' = NoOutcome
    /\ attempt' = 0
    /\ genCalls' = 0
    /\ callLog' = << >>
    /\ resp' = NoResponse
    /\ delays' = << >>
    /\ data' = NoResponse
    /\ valid' = "-"
    /\ emails' = << >>
    /\ idx' = 0
    /\ results' = << >>
    /\ links' = << >>
    /\ page' = NoPage
    /\ bidx' = 0
    /\ uresults' = << >>
    /\ log' = << >>
    /\ uemail' = NoUEmail
    /\ analyzed' = << >>
    /\ minConf' = 0
    /\ selected' = << >>
    /\ report' = NoReport
    /\ response_text' = << >>
    /\ cleaned' = << >>
    /\ session' = << >>
    /\ bulk' = << >>
    /\ archived_count' = 0
    /\ archivedOk' = {}

Next ==
    \/ AnalyzeEmail_Call
    \/ AE_Try
    \/ AE_Except
    \/ CallGemini_Call
    \/ Retry_Call
    \/ Retry_Return
    \/ Validate_Call
    \/ AnalyzeBatch_Call
    \/ B_Loop
    \/ B_After
    \/ Unsubscribe_Call
    \/ U_Visit
    \/ U_Form
    \/ U_Button
    \/ GetDeletionCandidates_Call
    \/ GetUnsubscribeCandidates_Call
    \/ GenerateSummaryReport_Call
    \/ GetDeletionCandidates_OnBatch
    \/ GetUnsubscribeCandidates_OnBatch
    \/ GenerateSummaryReport_OnBatch
    \/ Query_Body
    \/ CleanJsonResponse_Call
    \/ CleanJsonResponse_Body
    \/ BulkArchive_Call
    \/ BA_Loop
    \/ BA_Remove
    \/ Finish

Spec == Init /\ [][Next]_vars

-----------------------------------------------------------------------------
(* Claims *)

\* positions inside analyze_email and inside _call_gemini_with_retry
InAnalyze == pc \in {"ae_try", "ae_except"} \/ (pc \in {"retry_call", "retry_ret"} /\ caller = "analyze_email")
InRetry == pc \in {"retry_call", "retry_ret"}

\* analyze_email has just ended by raising, to the user or to analyze_batch
AnalyzeRaised ==
    \/ top = "analyze_email" /\ pc = "raised"
    \/ top = "analyze_batch" /\ pc = "b_after" /\ out.exc # "none"

\* analyze_email has just ended by returning out.dec
AnalyzeReturned ==
    \/ top = "analyze_email" /\ pc = "done"
    \/ top = "analyze_batch" /\ pc = "b_after" /\ out.exc = "none"

\* C1: analyze_email never raises to its caller: whatever the message record and
\* whatever the generation service does, no exception escapes the call.
C1_NeverRaises == ~AnalyzeRaised

\* C2: every decision analyze_email returns has its category in EmailCategory and its
\* action in EmailAction, and data accepted by _validate_analysis_data carries, after
\* the in-place normalisation, only values of members, so that no out-of-set value
\* can be carried into a decision built from it.
C2_EnumsClosed ==
    /\ AnalyzeReturned =>
         out.dec.category \in EmailCategory /\ out.dec.action \in EmailAction
    /\ \A i \in 1..Len(results) :
         results[i].analysis.category \in EmailCategory
         /\ results[i].analysis.action \in EmailAction
    /\ (top = "validate" /\ valid = "true") =>
         /\ data.category.tag = "str" /\ data.action.tag = "str"
         /\ \E c \in EmailCategory : EnumChars[c] = data.category.val
         /\ \E a \in EmailAction : EnumChars[a] = data.action.val

C2_Witness ==
    /\ top = "analyze_email" /\ pc = "done" /\ model = "available"
    /\ out.dec.category = "promotions" /\ out.dec.action = "unsubscribe"

\* a successful result is in the log at position i
SuccessAt(i) == log[i].ev = "result" /\ ~log[i].result.isNone /\ log[i].result.success

\* C3: once an attempt of unsubscribe_from_email has succeeded, by a form or by a
\* click, no further HTTP request is issued and no further result is appended.
C3_ShortCircuit ==
    \A i \in 1..Len(log) : SuccessAt(i) =>
        \A j \in (i + 1)..Len(log) : log[j].ev \notin {"request", "result"}

UnsubscribeMethods == {"form", "link", "none", "error"}

\* C4: unsubscribe_from_email lets no exception escape and every element of its
\* results list is an UnsubscribeResult with a boolean success and a method among
\* form, link, none, error, whatever the pages hold.
C4_TypedResults ==
    top = "unsubscribe" =>
        /\ pc # "raised"
        /\ \A i \in 1..Len(uresults) :
             /\ ~uresults[i].isNone
             /\ uresults[i].success \in BOOLEAN
             /\ uresults[i].method \in UnsubscribeMethods

\* a request that raised is in the log at position i, in the given phase
FailedRequestAt(i, phase) == log[i].ev = "request" /\ log[i].failed /\ log[i].phase = phase

\* the result recorded right after the request at position i is a failure of method m
FailureRecordedAfter(i, m) ==
    /\ i < Len(log)
    /\ log[i + 1].ev = "result"
    /\ ~log[i + 1].result.isNone
    /\ log[i + 1].result.success = FALSE
    /\ log[i + 1].result.method = m

\* C5 as stated: every transport failure, while fetching the page, submitting a form
\* or requesting a control's href, is recorded as a result with success false and
\* method "error".
C5_AllTransportFailuresAreError ==
    \A i \in 1..Len(log) :
        (log[i].ev = "request" /\ log[i].failed) => FailureRecordedAfter(i, "error")

\* C5 amended: every transport failure is recorded as a result with success false;
\* its method is "error" when the fetch of the candidate page failed, "form" when the
\* form submission failed and "link" when the request of a control's href failed.
C5_TransportFailureRecorded ==
    \A i \in 1..Len(log) :
        /\ FailedRequestAt(i, "fetch") => FailureRecordedAfter(i, "error")
        /\ FailedRequestAt(i, "form") => FailureRecordedAfter(i, "form")
        /\ FailedRequestAt(i, "click") => FailureRecordedAfter(i, "link")

C5_Witness ==
    /\ top = "unsubscribe" /\ pc = "done"
    /\ \E i \in 1..Len(log) : FailedRequestAt(i, "fetch")
    /\ \E i \in 1..Len(log) : FailedRequestAt(i, "form")
    /\ \E i \in 1..Len(log) : FailedRequestAt(i, "click")

\* C6: a failure while classifying one message never aborts analyze_batch.
C6_BatchNeverAborts == top = "analyze_batch" => pc # "raised"

\* C7: analyze_batch holds exactly one pair per message classified so far, the i-th
\* pair for the i-th input message; the messages are classified one at a time in
\* input order; the list returned has one pair per input message.
C7_BatchOrder ==
    top = "analyze_batch" =>
        /\ Len(results) <= Len(emails)
        /\ \A i \in 1..Len(results) : results[i].email = emails[i]
        /\ pc \in {"b_loop", "done"} => Len(results) = idx - 1
        /\ (InAnalyze \/ pc = "b_after") => (msg = emails[idx] /\ Len(results) = idx - 1)
        /\ pc = "done" => Len(results) = Len(emails)

C7_Witness ==
    /\ top = "analyze_batch" /\ pc = "done"
    /\ Len(emails) = 2 /\ emails[1] # emails[2]
    /\ results[1].analysis # results[2].analysis

\* the generate_content calls of the current retry loop that raised
Failures == { i \in 1..Len(callLog) : callLog[i] # "ok" }

\* C8: one invocation calls the generation service at most 3 times; no call follows
\* a call that returned; None is returned only after 3 failed attempts, whatever was
\* raised; the attempt counter starts from 0 in every invocation.
C8_RetryBound ==
    /\ genCalls <= 3 /\ Len(callLog) <= 3
    /\ \A i \in 1..(Len(callLog) - 1) : callLog[i] # "ok"
    /\ pc = "retry_call" => (attempt = Len(callLog) /\ Failures = 1..Len(callLog))
    /\ (pc = "retry_ret" \/ (top = "retry" /\ pc = "done")) =>
         /\ resp = NoResponse <=> (Len(callLog) = 3 /\ Failures = 1..3)
         /\ resp # NoResponse => callLog[Len(callLog)] = "ok"

C8_Witness ==
    /\ top = "retry" /\ pc = "done" /\ resp = NoResponse
    /\ genCalls = 3 /\ callLog[1] # callLog[2]

\* C9 as stated: an invocation in which all 3 attempts fail has applied the delays
\* 1, 2 and 4, in that order.
C9_DelaysOneTwoFour ==
    (top = "retry" /\ pc = "done" /\ resp = NoResponse) => delays = << 1, 2, 4 >>

\* C9 amended: the delay applied after a failed call that is followed by another
\* attempt doubles, 1 after the first failed attempt and 2 after the second; no delay
\* follows the third failed attempt, so an invocation in which all 3 attempts fail
\* has applied the delays 1 and 2, in that order.
C9_Backoff ==
    top = "retry" =>
        /\ Len(delays) = (IF Cardinality(Failures) < 3 THEN Cardinality(Failures) ELSE 2)
        /\ \A i \in 1..Len(delays) : delays[i] = 2 ^ (i - 1)
        /\ (pc = "done" /\ resp = NoResponse) => delays = << 1, 2 >>

C9_Witness ==
    top = "retry" /\ pc = "done" /\ resp = NoResponse /\ genCalls = 3 /\ delays = << 1, 2 >>

\* C10: with the generation service unavailable, analyze_email makes no call to it
\* and ends as the rule-based fallback does for the message: it returns exactly the
\* fallback's decision.
C10_UnavailableFallback ==
    (model = "none" /\ top \in {"analyze_email", "analyze_batch"}) =>
        /\ genCalls = 0 /\ callLog = << >> /\ ~InRetry
        /\ AnalyzeReturned => out = DefaultAnalysis(msg)
        /\ AnalyzeRaised => DefaultAnalysis(msg).exc # "none"

C10_Witness ==
    /\ model = "none" /\ top = "analyze_email" /\ pc = "done"
    /\ out.dec.category = "spam" /\ out.dec.action = "delete" /\ out.dec.priority_score = 1

\* the try body after the service answered r, followed by the handler of line 182
\* when it raised
AfterResponse(m, r) ==
    IF ResponseAnalysis(m, r).exc = "none" THEN ResponseAnalysis(m, r) ELSE HandlerAnalysis(m)

\* r is a malformed answer: its text is empty or does not parse to a JSON object, or
\* the object lacks category or action, or holds a value outside the enumerations,
\* or a value that cannot be coerced
Malformed(r) ==
    \/ r.kind \in {"empty", "garbage", "nonobject"}
    \/ /\ r.kind = "object"
       /\ \/ ValidateAnalysisData(r).ret # "true"
          \/ BuildAnalysis(ValidateAnalysisData(r).data).exc # "none"

\* C11: whenever the answer of the service is empty, does not parse, lacks category
\* or action, holds a value outside the enumerations or a value that cannot be
\* coerced, analyze_email ends as the rule-based fallback does for the same message.
\* With the service available every return of analyze_email is the fallback's
\* decision, and so is what lines 146-185 make of each malformed answer.
C11_MalformedFallsBack ==
    (model = "available" /\ top \in {"analyze_email", "analyze_batch"}) =>
        /\ AnalyzeReturned => out = DefaultAnalysis(msg)
        /\ AnalyzeRaised => DefaultAnalysis(msg).exc # "none"
        /\ InAnalyze => \A r \in Responses : Malformed(r) => AfterResponse(msg, r) = DefaultAnalysis(msg)

C11_Witness ==
    /\ model = "available" /\ top = "analyze_email" /\ pc = "done"
    /\ out = DefaultAnalysis(msg)
    /\ out.dec.category = "newsletters" /\ out.dec.action = "archive"
    /\ \E r \in Responses : Malformed(r) /\ r.kind = "object"

SubjectOf(m) == Lower(GetOrEmpty(m.subject).val)
SenderOf(m) == Lower(GetOrEmpty(m.sender).val)

Triple(d) == << d.category, d.action, d.priority_score >>

\* C13: the fallback decides by the first rule that matches, in the order spam,
\* promotion, newsletter and receipt keywords in the subject, then a social token in
\* the sender, then the default, with (spam, delete, 1), (promotions, unsubscribe, 3),
\* (newsletters, archive, 4), (receipts, archive, 6), (social, archive, 4) and
\* (notifications, keep, 5); its confidence is 0.6, is_automated is true,
\* has_unsubscribe false and the reputation "unknown".
C13_FallbackRules ==
    (AnalyzeReturned /\ genCalls = 0) =>
        LET spam    == AnyIn(spam_keywords, SubjectOf(msg))
            promo   == AnyIn(promo_keywords, SubjectOf(msg))
            news    == AnyIn(newsletter_keywords, SubjectOf(msg))
            receipt == AnyIn(receipt_keywords, SubjectOf(msg))
            social  == AnyIn(social_tokens, SenderOf(msg))
            d       == out.dec
        IN  /\ spam => Triple(d) = << "spam", "delete", 1 >>
            /\ (~spam /\ promo) => Triple(d) = << "promotions", "unsubscribe", 3 >>
            /\ (~spam /\ ~promo /\ news) => Triple(d) = << "newsletters", "archive", 4 >>
            /\ (~spam /\ ~promo /\ ~news /\ receipt) => Triple(d) = << "receipts", "archive", 6 >>
            /\ (~spam /\ ~promo /\ ~news /\ ~receipt /\ social) =>
                 Triple(d) = << "social", "archive", 4 >>
            /\ (~spam /\ ~promo /\ ~news /\ ~receipt /\ ~social) =>
                 Triple(d) = << "notifications", "keep", 5 >>
            /\ d.confidence = 60 /\ d.is_automated /\ ~d.has_unsubscribe
            /\ d.sender_reputation = "unknown"

C13_Witness ==
    /\ top = "analyze_email" /\ pc = "done"
    /\ msg.subject = Str(SubjSpamPromo)
    /\ AnyIn(spam_keywords, SubjectOf(msg)) /\ AnyIn(promo_keywords, SubjectOf(msg))
    /\ Triple(out.dec) = << "spam", "delete", 1 >>

\* the two values are strings that differ at most in the case of their letters, or
\* are both missing
SameUpToCase(a, b) ==
    /\ GetOrEmpty(a).tag = "str" /\ GetOrEmpty(b).tag = "str"
    /\ Len(GetOrEmpty(a).val) = Len(GetOrEmpty(b).val)
    /\ \A i \in 1..Len(GetOrEmpty(a).val) :
         LowerChar(GetOrEmpty(a).val[i]) = LowerChar(GetOrEmpty(b).val[i])

\* C14: two messages of a batch whose subjects and senders are equal up to case get
\* the same category, action and priority from the fallback, whatever their bodies
\* and whatever their places in the batch.
C14_FallbackDeterminism ==
    top = "analyze_batch" =>
        \A i, j \in 1..Len(results) :
            (SameUpToCase(results[i].email.subject, results[j].email.subject)
             /\ SameUpToCase(results[i].email.sender, results[j].email.sender))
            => Triple(results[i].analysis) = Triple(results[j].analysis)

C14_Witness ==
    /\ top = "analyze_batch" /\ pc = "done" /\ Len(results) = 2
    /\ results[1].email.subject = Str(SubjSpamPromoLower)
    /\ results[2].email.subject = Str(SubjSpamPromo)
    /\ results[1].email.body # results[2].email.body
    /\ Triple(results[1].analysis) = Triple(results[2].analysis)

\* C15 as stated: the pause of analyze_batch follows the classification of a message
\* exactly when that classification called the generation service.
C15_PauseOnlyAfterServiceCall ==
    [][(top = "analyze_batch" /\ pc = "b_after" /\ pc' = "b_loop")
       => ((delays' # delays) <=> (genCalls > 0))]_vars

\* sel holds exactly the pairs of es at the positions I, in the order of es
IsOrderedSelection(sel, es, I) ==
    /\ Len(sel) = Cardinality(I)
    /\ \E f \in [1..Len(sel) -> I] :
         /\ \A j, k \in 1..Len(sel) : j < k => f[j] < f[k]
         /\ \A k \in 1..Len(sel) : sel[k] = es[f[k]]

C16_ExactlyTheCandidates ==
    (top = "get_deletion_candidates" /\ pc = "done") =>
        IsOrderedSelection(selected, analyzed,
            { i \in 1..Len(analyzed) : /\ analyzed[i].analysis.action = "delete"
                                       /\ analyzed[i].analysis.confidence >= minConf
                                       /\ analyzed[i].analysis.priority_score <= 3 })

\* C16: get_deletion_candidates returns exactly the pairs of the batch, in batch
\* order, whose decision has action delete, a confidence of at least the threshold
\* (0.7 unless given) and a priority of at most 3, and leaves the batch as it was.
C16_DeletionCandidates ==
    /\ []C16_ExactlyTheCandidates
    /\ [][(top = "get_deletion_candidates" /\ pc = "q_body") => analyzed' = analyzed]_vars

C16_Witness ==
    /\ top = "get_deletion_candidates" /\ pc = "done" /\ minConf = 70
    /\ Len(analyzed) = 2 /\ Len(selected) = 1
    /\ analyzed[1].analysis.confidence = 50 /\ analyzed[1].analysis.action = "delete"
    /\ analyzed[2].analysis.confidence = 70 /\ analyzed[2].analysis.priority_score = 3
    /\ selected[1] = analyzed[2]

C17_ExactlyTheCandidates ==
    (top = "get_unsubscribe_candidates" /\ pc = "done") =>
        IsOrderedSelection(selected, analyzed,
            { i \in 1..Len(analyzed) : /\ analyzed[i].analysis.action = "unsubscribe"
                                       /\ analyzed[i].analysis.has_unsubscribe = TRUE
                                       /\ analyzed[i].analysis.category \in {"promotions", "newsletters"} })

\* C17: get_unsubscribe_candidates returns exactly the pairs of the batch, in batch
\* order, whose decision has action unsubscribe, has_unsubscribe true and a category
\* among promotions and newsletters.
C17_UnsubscribeCandidates ==
    /\ []C17_ExactlyTheCandidates
    /\ [][(top = "get_unsubscribe_candidates" /\ pc = "q_body") => analyzed' = analyzed]_vars

C17_Witness ==
    /\ top = "get_unsubscribe_candidates" /\ pc = "done"
    /\ Len(analyzed) = 2 /\ Len(selected) = 1
    /\ analyzed[1].analysis.action = "unsubscribe" /\ ~analyzed[1].analysis.has_unsubscribe
    /\ analyzed[2].analysis.category = "newsletters"
    /\ selected[1] = analyzed[2]

\* the sum of the confidences of the first k pairs
RECURSIVE ConfidenceUpTo(_, _)
ConfidenceUpTo(es, k) ==
    IF k = 0 THEN 0 ELSE ConfidenceUpTo(es, k - 1) + es[k].analysis.confidence

\* C18: generate_summary_report on an empty batch returns the empty report, with no
\* average confidence, and divides nothing by zero; on a batch that is not empty it
\* returns a report whose avg_confidence is the sum of the confidences over the
\* number of pairs.
C18_ReportAverage ==
    /\ report.exc # "ZeroDivisionError"
    /\ (top = "generate_summary_report" /\ pc \in {"done", "raised"}) =>
         IF Len(analyzed) = 0
         THEN pc = "done" /\ report.empty /\ report = EmptyReport
         ELSE pc = "done" =>
              /\ ~report.empty
              /\ report.avg_confidence.den = Len(analyzed)
              /\ report.avg_confidence.num = ConfidenceUpTo(analyzed, Len(analyzed))

C18_Witness ==
    /\ top = "generate_summary_report" /\ pc = "done"
    /\ Len(analyzed) = 2 /\ analyzed[1].analysis.confidence = 90
    /\ analyzed[2].analysis.confidence = 50
    /\ report.avg_confidence = Quotient(140, 2)

\* the content holds no candidate link: no anchor matches and no URL stands in
\* angle brackets
NoCandidate(c) ==
    /\ \A i \in 1..Len(c.angled) : ~IsHttp(HrefChars[c.angled[i]])
    /\ \A i \in 1..Len(c.anchors) : ~c.anchors[i].matches

\* C19: unsubscribe_from_email on a message with neither body_html nor body_text, or
\* on one whose content holds no candidate link, returns exactly one result, with
\* success false and method "none", and makes no HTTP request.
C19_TerminalNone ==
    (top = "unsubscribe"
     /\ \/ ~uemail.body_html.present /\ ~uemail.body_text.present
        \/ NoCandidate(EmailContent(uemail))) =>
        /\ pc = "done"
        /\ Len(uresults) = 1
        /\ ~uresults[1].isNone
        /\ uresults[1].success = FALSE
        /\ uresults[1].method = "none"
        /\ \A i \in 1..Len(log) : log[i].ev # "request"

C19_Witness ==
    /\ top = "unsubscribe" /\ pc = "done"
    /\ uemail.body_html.present /\ NoCandidate(uemail.body_html)
    /\ Len(uresults) = 1 /\ uresults[1].method = "none" /\ log = << Recorded("extract", "", NoLinksResult) >>

\* q without the later occurrences of each element
RECURSIVE Dedup(_)
Dedup(q) ==
    IF q = << >> THEN << >>
    ELSE LET d == Dedup(SubSeq(q, 1, Len(q) - 1))
         IN  IF \E i \in 1..Len(d) : d[i] = q[Len(q)] THEN d ELSE Append(d, q[Len(q)])

\* the candidate links of the content in the order in which extract_unsubscribe_links
\* comes upon them: the matching anchors, then the URLs in angle brackets
FirstSeen(c) ==
    LET as == SelectSeq(c.anchors, LAMBDA a : a.matches)
    IN  Dedup([i \in 1..Len(as) |-> as[i].href] \o ListUnsubscribeMatches(c))

\* the links of the page fetches made so far, in order
FetchedLinks ==
    LET fs == SelectSeq(log, LAMBDA x : x.ev = "request" /\ x.phase = "fetch")
    IN  [i \in 1..Len(fs) |-> fs[i].link]

\* C20: unsubscribe_from_email goes through the candidate links in the order in which
\* they were first seen in the content, the same on every run, and fetches their
\* pages in that order.
C20_FirstSeenOrder ==
    (top = "unsubscribe" /\ links # << >>) =>
        /\ links = FirstSeen(EmailContent(uemail))
        /\ Len(FetchedLinks) <= Len(links)
        /\ FetchedLinks = SubSeq(FirstSeen(EmailContent(uemail)), 1, Len(FetchedLinks))

\* the hrefs of the anchors of c whose lower-cased text or whose href matches an
\* unsubscribe pattern
QualifyingHrefs(c) ==
    { c.anchors[i].href : i \in { j \in 1..Len(c.anchors) :
          \/ SearchAny(unsubscribe_patterns, Lower(c.anchors[j].text))
          \/ SearchAny(unsubscribe_patterns, HrefChars[c.anchors[j].href]) } }

\* the URLs c holds in angle brackets: all of them, and those of scheme http or https
Bracketed(c) == { c.angled[i] : i \in 1..Len(c.angled) }
BracketedHttp(c) == { u \in Bracketed(c) : IsHttp(HrefChars[u]) }

\* the list of links that unsubscribe_from_email got holds exactly the URLs of S, each
\* once (an empty list ends the call at once and is not kept)
LinksAreExactly(S) ==
    IF pc = "done" /\ Len(uresults) = 1 /\ uresults[1] = NoLinksResult
    THEN S = {}
    ELSE /\ { links[i] : i \in 1..Len(links) } = S
         /\ Len(links) = Cardinality(S)

\* extract_unsubscribe_links has just returned inside unsubscribe_from_email: no page
\* was asked for yet, or the call ended on an empty list
ExtractionReturned ==
    /\ top = "unsubscribe"
    /\ \/ pc = "u_visit" /\ log = << >>
       \/ pc = "done" /\ Len(uresults) = 1 /\ uresults[1] = NoLinksResult
    /\ EmailContent(uemail).present

\* C21 as stated: extract_unsubscribe_links returns, without duplicates, exactly the
\* hrefs of the anchors whose text or href matches an unsubscribe pattern and every
\* URL enclosed in angle brackets.
C21_AllBracketedUrls ==
    ExtractionReturned =>
        LinksAreExactly(QualifyingHrefs(EmailContent(uemail)) \cup Bracketed(EmailContent(uemail)))

C21_HttpBracketedUrls ==
    ExtractionReturned =>
        LinksAreExactly(QualifyingHrefs(EmailContent(uemail)) \cup BracketedHttp(EmailContent(uemail)))

\* C21 amended: extract_unsubscribe_links returns, without duplicates, exactly the
\* hrefs of the anchors whose text or href matches an unsubscribe pattern and every
\* http:// or https:// URL enclosed in angle brackets; a URL of another scheme in
\* angle brackets, an anchor that matches no pattern and a second occurrence of a
\* URL contribute nothing.  The list stays as returned while its links are visited.
C21_ExtractedLinks ==
    /\ []C21_HttpBracketedUrls
    /\ [][(top = "unsubscribe" /\ top' = "unsubscribe") => (links' = links /\ uemail' = uemail)]_vars

C21_Witness ==
    /\ ExtractionReturned /\ Len(links) = 2
    /\ "u2" \in QualifyingHrefs(uemail.body_html) /\ "u2" \in BracketedHttp(uemail.body_html)
    /\ "u3" \notin QualifyingHrefs(uemail.body_html)
    /\ \E i \in 1..Len(uemail.body_html.anchors) : uemail.body_html.anchors[i].href = "u3"

\* the page of a candidate link is requested at position i of the log
FetchAt(i) == log[i].ev = "request" /\ log[i].phase = "fetch"

\* C22: between any two consecutive visits of candidate links made by
\* unsubscribe_from_email the delay of 2 time units is applied, also when the
\* earlier visit ended in a fetch error or in a failed form or control attempt.
C22_PauseBetweenVisits ==
    \A i, j \in 1..Len(log) :
        (i < j /\ FetchAt(i) /\ FetchAt(j) /\ \A k \in (i + 1)..(j - 1) : ~FetchAt(k)) =>
            \E k \in (i + 1)..(j - 1) : log[k].ev = "sleep" /\ log[k].secs = 2

\* no result recorded so far is a success
NoSuccess == \A i \in 1..Len(uresults) : uresults[i].isNone \/ ~uresults[i].success

\* how far the call has come: the link, then the stage at that link, then the control
Progress ==
    IF pc = "done" THEN 10 * (Len(links) + 2)
    ELSE 10 * idx + (IF pc = "u_visit" THEN 0 ELSE IF pc = "u_form" THEN 1 ELSE 2 + bidx)

C23_EveryLinkOnce ==
    top = "unsubscribe" =>
        /\ FetchedLinks = SubSeq(links, 1, Len(FetchedLinks))
        /\ (pc = "done" /\ NoSuccess) => FetchedLinks = links
        /\ \A i \in 1..Len(log) : (FetchAt(i) /\ log[i].failed) =>
             /\ i < Len(log)
             /\ log[i + 1].ev = "result"
             /\ log[i + 1].result.success = FALSE
             /\ log[i + 1].result.url.base = log[i].link
        /\ Progress <= 10 * (Len(links) + 2)

\* C23: when no attempt succeeds, unsubscribe_from_email fetches every candidate link
\* exactly once, in the order of its list, before it returns; a failed fetch appends
\* a failed result that carries the URL of that link and the next link is tried; and
\* the call ends after the last candidate, every step of it moving on to a later
\* link, stage or control.
C23_Exhaustion ==
    /\ []C23_EveryLinkOnce
    /\ [][(top = "unsubscribe" /\ top' = "unsubscribe") => Progress' > Progress]_vars

C23_Witness ==
    /\ top = "unsubscribe" /\ pc = "done" /\ NoSuccess
    /\ Len(links) = 2 /\ FetchedLinks = links
    /\ \E i \in 1..Len(log) : FetchAt(i) /\ log[i].failed /\ log[i].link = links[1]
    /\ uresults[1] = ErrorResult(links[1])

\* the response texts that are a valid JSON object written on a single line
SingleLineJsonObjects == {TxtJsonObject, TxtJsonCommaString}

\* C24: sanitizing a sanitized text changes nothing, whatever the response text, and
\* a text that is already a valid JSON object on a single line comes back unchanged.
C24_SanitizerIdempotent ==
    (top = "clean_json_response" /\ pc = "done") =>
        /\ CleanJsonResponse(cleaned) = cleaned
        /\ response_text \in SingleLineJsonObjects => cleaned = response_text

\* a control of the page of link l is requested at position i of the log
ClickAt(i, l) == log[i].ev = "request" /\ log[i].phase = "click" /\ log[i].link = l

\* C25: on a page without a form, or whose form attempt did not succeed, a GET goes
\* only to the first anchor control, so at most one control of a page is requested,
\* and a click succeeds on exactly the response bodies on which a form submission
\* succeeds.
C25_FirstAnchorSamePhrases ==
    /\ \A i, j \in 1..Len(log) : (ClickAt(i, log[i].link) /\ ClickAt(j, log[i].link)) => i = j
    /\ \A i \in 1..Len(log) :
         (ClickAt(i, log[i].link) /\ ~log[i].failed) =>
             /\ i < Len(log)
             /\ log[i + 1].ev = "result"
             /\ log[i + 1].result.success = FormResult(log[i].link, log[i].outcome).success

\* C26: on each visited page, once a success is recorded, by the form submission or by
\* a click, nothing more is requested from that page and no further result is
\* recorded for it: a successful form submission is followed by no click, and a page
\* has at most one successful result, the last one recorded for it.
C26_OneSuccessPerPage ==
    \A i \in 1..Len(log) : SuccessAt(i) =>
        \A j \in (i + 1)..Len(log) :
            log[j].link = log[i].link => log[j].ev \notin {"request", "result"}

C26_Witness ==
    /\ top = "unsubscribe" /\ pc = "u_visit" /\ idx = 2
    /\ ~page.form /\ page.buttons = << "link", "link" >>
    /\ \E i \in 1..Len(log) : SuccessAt(i) /\ log[i].phase = "click" /\ log[i].link = links[1]
    /\ Cardinality({ i \in 1..Len(log) : ClickAt(i, links[1]) }) = 1

\* the pair holds the decision the rule-based fallback gives for its email
IsFallbackPair(p) == DefaultAnalysis(p.email) = Returned(p.analysis)

\* a candidate query has returned; get_deletion_candidates was given the default
\* threshold
CandidatesAtDefault ==
    /\ pc = "done"
    /\ \/ top = "get_unsubscribe_candidates"
       \/ top = "get_deletion_candidates" /\ minConf = MinConfidenceDefault

\* the list queried is the one analyze_batch returned while self.model was None
BatchWithoutService ==
    /\ model = "none"
    /\ emails # << >>
    /\ analyzed = results
    /\ Len(results) = Len(emails)

\* C27: a decision of the rule-based fallback is in no list get_unsubscribe_candidates
\* returns and in no list get_deletion_candidates returns at the default threshold
\* 0.7; for a batch analyzed while the generation service is unavailable both
\* lists are empty.
C27_FallbackNeverSelected ==
    CandidatesAtDefault =>
        /\ \A j \in 1..Len(selected) : ~IsFallbackPair(selected[j])
        /\ BatchWithoutService => selected = << >>

C27_Witness ==
    /\ CandidatesAtDefault
    /\ BatchWithoutService
    /\ top = "get_deletion_candidates"
    /\ Len(analyzed) = 2
    /\ analyzed[1].analysis.action = "delete"
    /\ analyzed[2].analysis.action = "unsubscribe"
    /\ selected = << >>

\* the sum of the counts a dict of the report holds
RECURSIVE SumCounts(_, _)
SumCounts(counts, keys) ==
    IF keys = {} THEN 0
    ELSE LET k == CHOOSE x \in keys : TRUE
         IN  counts[k] + SumCounts(counts, keys \ {k})

\* generate_summary_report has ended on a list analyze_batch returned, which holds
\* at least one pair
ReportOnBatchEnded ==
    /\ top = "generate_summary_report"
    /\ pc \in {"done", "raised"}
    /\ emails # << >>
    /\ analyzed = results
    /\ Len(analyzed) > 0

\* C28: on every non-empty list analyze_batch returns, generate_summary_report
\* returns a report and raises nothing; total_emails is the number of pairs, and the
\* category counts, the action counts and the priority histogram over 1..10 each
\* sum to it.
C28_ReportCountsSum ==
    ReportOnBatchEnded =>
        /\ pc = "done"
        /\ report.exc = "none"
        /\ report.total_emails = Len(analyzed)
        /\ SumCounts(report.categories, EmailCategory) = report.total_emails
        /\ SumCounts(report.actions, EmailAction) = report.total_emails
        /\ SumCounts(report.priority_distribution, PriorityKeys) = report.total_emails

\* the pairs of the list whose decision has the action
WithAction(es, act) == { i \in 1..Len(es) : es[i].analysis.action = act }

\* C29: the report's deletion_candidates is the number of decisions whose action is
\* delete and its unsubscribe_candidates the number whose action is unsubscribe,
\* whatever their confidence, priority, has_unsubscribe and category; so for every
\* threshold each count is at least the length of the list get_deletion_candidates,
\* respectively get_unsubscribe_candidates, returns for the same pairs.
C29_CountsByActionOnly ==
    (top = "generate_summary_report" /\ pc = "done" /\ ~report.empty) =>
        /\ report.deletion_candidates = Cardinality(WithAction(analyzed, "delete"))
        /\ report.unsubscribe_candidates = Cardinality(WithAction(analyzed, "unsubscribe"))
        /\ \A t \in 0..100 :
             report.deletion_candidates >= Len(GetDeletionCandidates(analyzed, t))
        /\ report.unsubscribe_candidates >= Len(GetUnsubscribeCandidates(analyzed))

\* both counts are strictly greater than the lists, at every threshold
C29_Witness ==
    /\ top = "generate_summary_report" /\ pc = "done"
    /\ Len(analyzed) = 2
    /\ report.deletion_candidates = 1
    /\ report.unsubscribe_candidates = 1
    /\ \A t \in 0..100 : GetDeletionCandidates(analyzed, t) = << >>
    /\ GetUnsubscribeCandidates(analyzed) = << >>

\* the ids of the emails handed to bulk_archive_emails that are no more in the
\* session list
RemovedIds == { bulk[i].id : i \in 1..Len(bulk) } \ { session[i].id : i \in 1..Len(session) }

\* C30: when bulk_archive_emails has ended, the emails removed from the session's
\* analyzed list are exactly those for which archive_email returned True: an email
\* whose archive failed is still in the list and an archived one is not.
C30_RemovedAreArchived ==
    (top = "bulk_archive_emails" /\ pc = "done") => RemovedIds = archivedOk

====
